---------------------------- MODULE Spec2Model ----------------------------
(***************************************************************************)
(* Economic simulation engine of the browser game: the seeded generator,   *)
(* the item seed, the daily price, the risk pricing formulas, the outcome  *)
(* resolver and the crafting success rate; the inventory page (selection,  *)
(* insurance, repairs, quick sale), the crafting page, the listings page,  *)
(* the day counter and the price history kept in localStorage.             *)
(*                                                                         *)
(* Numbers.  JavaScript numbers are modelled as integers over a named      *)
(* unit:                                                                   *)
(*   - prices are counted in 1/PriceUnit (a price p stands for             *)
(*     p / PriceUnit), so that non-integer base prices exist;              *)
(*   - percentages are counted in hundredths or thousandths, which makes   *)
(*     the risk formulas exact;                                            *)
(*   - the values drawn from the generator and Math.sin are fixed point    *)
(*     with FxOne = 10^6, Math.sin being accurate to 2 * 10^-6.            *)
(* TLC's integers are 32 bit, so products are split to stay below 2^31.    *)
(***************************************************************************)
EXTENDS Integers, Sequences, FiniteSets

(***************************************************************************)
(* Bounds of the model.                                                    *)
(***************************************************************************)
PriceUnit == 2      \* prices are counted in halves
MaxDay == 45        \* days 0..MaxDay are passed to calculateDailyPrice

(***************************************************************************)
(* JavaScript arithmetic.                                                  *)
(***************************************************************************)
Max(a, b) == IF a >= b THEN a ELSE b
Min(a, b) == IF a <= b THEN a ELSE b

\* a % m of JavaScript: the remainder has the sign of the dividend.
JsRem(a, m) == IF a >= 0 THEN a % m ELSE 0 - ((0 - a) % m)

\* Math.floor(n / d) for d > 0.
MathFloor(n, d) == n \div d

\* Math.round(n / d) for d > 0: the nearest integer, halves go up.
MathRound(n, d) == (2 * n + d) \div (2 * d)

\* The sum of the UTF-16 code units of a string, as
\* s.split('').reduce((acc, char) => acc + char.charCodeAt(0), 0).
\* A string is modelled as the sequence of its code units.
RECURSIVE charCodeSum(_)
charCodeSum(s) == IF s = <<>> THEN 0 ELSE Head(s) + charCodeSum(Tail(s))

(***************************************************************************)
(* Fixed point, for Math.sin and the values drawn from the generator.      *)
(***************************************************************************)
FxOne == 1000000

\* a * b / FxOne, rounded, for 0 <= a, b < 3 * FxOne, by limbs of 1000.
FxMul(a, b) ==
  LET a1 == a \div 1000
      a0 == a % 1000
      b1 == b \div 1000
      b0 == b % 1000
  IN  a1 * b1 + (a1 * b0 + a0 * b1 + (a0 * b0 + 500) \div 1000 + 500) \div 1000

PiFx == 3141593
HalfPiFx == 1570796
TwoPiFx == 6283185

\* sin y for 0 <= y <= pi/2: the Taylor polynomial of degree 13 (Horner).
SinTaylor(y) ==
  LET y2 == FxMul(y, y)
      h5 == FxOne - (y2 + 78) \div 156
      h4 == FxOne - (FxMul(y2, h5) + 55) \div 110
      h3 == FxOne - (FxMul(y2, h4) + 36) \div 72
      h2 == FxOne - (FxMul(y2, h3) + 21) \div 42
      h1 == FxOne - (FxMul(y2, h2) + 10) \div 20
      h0 == FxOne - (FxMul(y2, h1) + 3) \div 6
  IN  FxMul(y, h0)

\* Math.sin(x) for x >= 0, to about 10^-5.
MathSin(x) ==
  LET r == x % TwoPiFx
  IN  IF r <= HalfPiFx THEN SinTaylor(r)
      ELSE IF r <= PiFx THEN SinTaylor(PiFx - r)
      ELSE IF r <= PiFx + HalfPiFx THEN 0 - SinTaylor(r - PiFx)
      ELSE 0 - SinTaylor(TwoPiFx - r)

(***************************************************************************)
(* The seeded generator (utils/rng.js).                                    *)
(***************************************************************************)
VARIABLES
  value,     \* the variable `value` of the generator created last by seededRandom
  daily,     \* the last call of calculateDailyPrice: its arguments and result
  earlier    \* a call of calculateDailyPrice made before `daily`

LcgModulus == 233280
LcgMultiplier == 9301
LcgIncrement == 49297

\* The step with the digits of the multiplier transposed (9031).
randomTransposed(v) ==
  LET r == JsRem(v, LcgModulus)
      m == JsRem(JsRem(r * 90, LcgModulus) * 100 + r * 31, LcgModulus)
  IN  JsRem(m + LcgIncrement, LcgModulus)

\* One call of the function returned by seededRandom, on a generator whose
\* variable holds v: the new contents of the variable,
\*   value = (value * 9301 + 49297) % 233280.
\* 9301 = 93 * 100 + 1, and the product is reduced after each factor; for
\* v >= 0 this is the same number.
random(v) ==
  LET r == JsRem(v, LcgModulus)
      m == JsRem(JsRem(r * (LcgMultiplier \div 100), LcgModulus) * 100
                 + r * (LcgMultiplier % 100), LcgModulus)
  IN  JsRem(m + LcgIncrement, LcgModulus)

\* `return value / 233280`, in fixed point, rounded (10^6 / 233280 = 3125 / 729).
randomValue(v) == (v * 3125 + 364) \div 729

\* A generator that is not seeded by the call: it goes on from the contents
\* the generator of the previous call was left with.
seededRandomShared(seed) == value

\* seededRandom(seed): the initial contents of the new generator's variable.
seededRandom(seed) == seed

(***************************************************************************)
(* Item ids are numbers or strings.                                        *)
(***************************************************************************)
NumId(n) == [isString |-> FALSE, num |-> n, chars |-> <<>>]
StrId(s) == [isString |-> TRUE, num |-> 0, chars |-> s]

\* generateItemSeed(itemId, itemName, basePrice); basePrice in 1/PriceUnit.
generateItemSeed(itemId, itemName, basePrice) ==
  LET idHash == IF itemId.isString THEN charCodeSum(itemId.chars) ELSE itemId.num
      nameHash == charCodeSum(itemName)
      priceHash == MathFloor(basePrice, PriceUnit)
  IN  JsRem(idHash * 1000000 + nameHash * 1000 + priceHash, 1000000)

\* const daySeed = itemSeed + (currentDay * 7919)
daySeedOf(basePrice, currentDay, itemId, itemName) ==
  generateItemSeed(itemId, itemName, basePrice) + currentDay * 7919

\* The contents of the generator's variable after random() was called
\* n times in calculateDailyPrice (n = 1, 2, 3 give r1, r2, r3).
RECURSIVE drawn(_, _)
drawn(seed, n) == IF n = 0 THEN seededRandom(seed) ELSE random(drawn(seed, n - 1))

\* Does the call reach `const random = seededRandom(daySeed)`?
usesGenerator(basePrice, currentDay) == basePrice > 0 /\ currentDay >= 1

\* round(a * f / c) for f >= 0 and c > 0, without forming a * f.
MulDivRound(a, f, c) == (a \div c) * f + ((a % c) * f + c \div 2) \div c

\* dayCycle, noise and trend * 0.5 of calculateDailyPrice, each counted in
\* 1/(20 * FxOne):
\*   dayCycle = Math.sin((currentDay + r1 * 10) * 0.1) * 0.5 + 0.5
\*   noise = (r2 - 0.5) * 0.2
\*   trend = (r3 - 0.5) * 0.3
dayCycleOf(r1, currentDay) ==
  10 * MathSin((currentDay * FxOne + r1 * 10) \div 10) + 10 * FxOne
noiseOf(r2) == 4 * (r2 - FxOne \div 2)
halfTrendOf(r3) == 3 * (r3 - FxOne \div 2)

\* The multiplier without the recentring `- fluctuationRange / 2`.
priceDeltaNotCentred(r1, r2, r3, currentDay, fluctuationRange) ==
  MulDivRound(dayCycleOf(r1, currentDay) + noiseOf(r2) + halfTrendOf(r3),
              fluctuationRange, 200)

\* priceMultiplier - 1, counted in 1/(100 * FxOne); fluctuationRange in
\* thousandths:
\*   fluctuation = dayCycle * fluctuationRange + noise * fluctuationRange
\*                 + trend * fluctuationRange * 0.5
\*   priceMultiplier = 1 + (fluctuation - fluctuationRange / 2)
priceDelta(r1, r2, r3, currentDay, fluctuationRange) ==
  MulDivRound(dayCycleOf(r1, currentDay) + noiseOf(r2) + halfTrendOf(r3) - 10 * FxOne,
              fluctuationRange, 200)

\* Math.max(1, Math.round(basePrice * priceMultiplier)), with
\* priceMultiplier = 1 + delta / (100 * FxOne).  The integer part of
\* basePrice is taken out of the rounding and delta is split in limbs of
\* 10^4, which leaves the rounded value unchanged.
roundedPrice(basePrice, delta) ==
  LET whole == basePrice \div PriceUnit
      part == basePrice % PriceUnit
      high == part * 10000 + basePrice * (delta \div 10000)
      low == basePrice * (delta % 10000)
  IN  Max(1, whole + (high + low \div 10000 + PriceUnit * 5000) \div (PriceUnit * 10000))

\* calculateDailyPrice(basePrice, currentDay, itemId, itemName, fluctuationRange).
\* basePrice and the result are counted in 1/PriceUnit.
calculateDailyPrice(basePrice, currentDay, itemId, itemName, fluctuationRange) ==
  IF basePrice <= 0 THEN 1 * PriceUnit
  ELSE IF currentDay < 1 THEN basePrice
  ELSE
    LET daySeed == daySeedOf(basePrice, currentDay, itemId, itemName)
        r1 == randomValue(drawn(daySeed, 1))
        r2 == randomValue(drawn(daySeed, 2))
        r3 == randomValue(drawn(daySeed, 3))
    IN  roundedPrice(basePrice, priceDelta(r1, r2, r3, currentDay, fluctuationRange))
           * PriceUnit

(***************************************************************************)
(* Calls of calculateDailyPrice.                                           *)
(***************************************************************************)
BasePrices == {0 - PriceUnit, 0, 1, 10 * PriceUnit + 1, 100 * PriceUnit, 1000 * PriceUnit}
Days == 0..MaxDay
ItemIds == {NumId(1), NumId(2), StrId(<<55>>)}            \* 1, 2, "7"
ItemNames == {<<88>>, <<79, 114, 101>>}                   \* "X", "Ore"
FluctuationRanges == {0, 150, 400}                        \* 0, 0.15 (the default), 0.4

NoCall ==
  [called |-> FALSE, basePrice |-> 0, currentDay |-> 0, itemId |-> NumId(0),
   itemName |-> <<>>, fluctuationRange |-> 0, result |-> 0]

DailyArgs(b, d, i, n, f) ==
  [called |-> FALSE, basePrice |-> b, currentDay |-> d, itemId |-> i,
   itemName |-> n, fluctuationRange |-> f, result |-> 0]

\* A caller evaluates calculateDailyPrice(b, d, i, n, f).  The generator the
\* call creates is left behind with the contents its three draws gave it.
CallDailyPrice(b, d, i, n, f) ==
  /\ daily' = [DailyArgs(b, d, i, n, f) EXCEPT
                 !.called = TRUE,
                 !.result = calculateDailyPrice(b, d, i, n, f)]
  /\ value' = IF usesGenerator(b, d) THEN drawn(daySeedOf(b, d, i, n), 3) ELSE value

(***************************************************************************)
(* Risk pricing (listings and inventory pages), the outcome resolver and   *)
(* the crafting success rate.  These functions return whole amounts.       *)
(***************************************************************************)
DrawUnit == 1       \* Math.random() * 100 is counted in 1/DrawUnit
MaxMaterials == 3   \* materials passed to calculateSuccessRate
MaxDraws == 3       \* calls made on one generator

\* The price rounded down (Math.floor) instead of to the nearest integer.
calculateRiskAdjustedPriceFloored(basePrice, risk) ==
  Max(1, MathFloor(basePrice * (1000 - risk * 6), 1000 * PriceUnit))

\* calculateRiskAdjustedPrice(basePrice, risk); basePrice in 1/PriceUnit,
\* riskMultiplier = 1 - (risk / 100) * 0.6 in thousandths.
calculateRiskAdjustedPrice(basePrice, risk) ==
  LET discountFactor == 6                        \* 0.6, in tenths
      riskMultiplier == 1000 - risk * discountFactor
  IN  Max(1, MathRound(basePrice * riskMultiplier, 1000 * PriceUnit))

\* The floor price computed but not applied.
applyFloorSkipped(sellingPrice, floorPrice) == sellingPrice

\* The floor of a quick sale: sellingPrice = Math.max(sellingPrice, floorPrice).
applyFloor(sellingPrice, floorPrice) == Max(sellingPrice, floorPrice)

\* No floorPricePercentage (the parameter's default, null).
NoFloor == 0 - 1

\* calculateRiskAdjustedSellingPrice(basePrice, risk, floorPricePercentage)
\* when randomPercent() returns draw / DrawUnit; floorPricePercentage in
\* hundredths, NoFloor for null.
calculateRiskAdjustedSellingPrice(basePrice, risk, floorPricePercentage, draw) ==
  LET getsDiscount == draw < risk * DrawUnit
      multiplier == IF getsDiscount
                      THEN 1000 - risk * 3            \* 1 - (risk / 100) * 0.30
                      ELSE 1000 + (100 - risk) * 5    \* 1 + ((100 - risk) / 100) * 0.50
      sellingPrice == Max(1, MathRound(basePrice * multiplier, 1000 * PriceUnit))
  IN  IF floorPricePercentage # NoFloor
        THEN applyFloor(sellingPrice,
                        MathRound(basePrice * floorPricePercentage, 100 * PriceUnit))
        ELSE sellingPrice

\* The comparison with <= instead of <.
randomChanceInclusive(chance, draw) == draw <= chance * DrawUnit

\* randomChance(chance) when Math.random() * 100 is draw / DrawUnit.
randomChance(chance, draw) == draw < chance * DrawUnit

\* Success rates are counted in quarters of a percent (qualityBonus * 0.25).
RateUnit == 4

\* The bonus one material adds, in 1/RateUnit.
materialBonus(status, qualityBonus) ==
  IF status = "Legendary" THEN qualityBonus * RateUnit
  ELSE IF status = "New" THEN (qualityBonus * RateUnit) \div 2
  ELSE IF status = "Used" THEN (qualityBonus * RateUnit) \div 4
  ELSE 0

RECURSIVE sumBonus(_, _)
sumBonus(materials, qualityBonus) ==
  IF materials = <<>> THEN 0
  ELSE materialBonus(Head(materials), qualityBonus) + sumBonus(Tail(materials), qualityBonus)

\* The clamp without its lower end.
clampRateAboveOnly(successRate) == Min(95 * RateUnit, successRate)

\* Math.min(95, Math.max(5, successRate))
clampRate(successRate) == Min(95 * RateUnit, Max(5 * RateUnit, successRate))

\* calculateSuccessRate(recipe, materials), in 1/RateUnit; materials is the
\* sequence of the materials' statuses.
calculateSuccessRate(recipe, materials) ==
  clampRate(recipe.baseSuccessRate * RateUnit + sumBonus(materials, recipe.qualityBonus))

(***************************************************************************)
(* The functions applied to arguments drawn from bounded sets.             *)
(***************************************************************************)
VARIABLES
  pc,        \* the function that is about to be applied, "done" afterwards
  since,     \* calls of calculateDailyPrice made after `earlier`, capped
  gen,       \* a generator returned by seededRandom(seed) and its calls
  adjusted,  \* a call of calculateRiskAdjustedPrice
  selling,   \* a call of calculateRiskAdjustedSellingPrice and its draw
  chance,    \* a call of randomChance and its draw
  craft      \* a call of calculateSuccessRate

MaxSince == 2

Seeds == {0, 1, 12345, 233279, 233280, 88100 + 5 * 7919, 999999 + MaxDay * 7919}
Risks == 0..100
Draws == 0..(100 * DrawUnit - 1)
SellingBasePrices == {1, 10 * PriceUnit + 1, 100 * PriceUnit}
SellingRisks == {0, 10, 50, 80, 100}
FloorPercentages == {NoFloor, 10, 50, 90}
Chances == {0, 1, 50, 99, 100}
BaseSuccessRates == {0, 45, 70, 100}
QualityBonuses == {0 - 20, 0, 15, 35}
Statuses == {"Legendary", "Rare", "Uncommon", "Common", "New", "Used", "Damaged"}

RECURSIVE SeqsUpTo(_, _)
SeqsUpTo(S, n) ==
  IF n = 0 THEN {<<>>}
  ELSE SeqsUpTo(S, n - 1)
       \cup {Append(q, x) : q \in {r \in SeqsUpTo(S, n - 1) : Len(r) = n - 1}, x \in S}

NoGen == [seed |-> 0, value |-> 0, draws |-> 0, out |-> 0]
NoAdjusted == [called |-> FALSE, basePrice |-> 0, risk |-> 0, result |-> 0]
NoSelling ==
  [called |-> FALSE, basePrice |-> 0, risk |-> 0, floorPricePercentage |-> NoFloor,
   draw |-> 0, result |-> 0]
NoChance == [called |-> FALSE, chance |-> 0, draw |-> 0, result |-> FALSE]
NoCraft ==
  [called |-> FALSE, recipe |-> [baseSuccessRate |-> 0, qualityBonus |-> 0],
   materials |-> <<>>, result |-> 0]

(***************************************************************************)
(* The state of the inventory page (app/my-inventory/page.js) and the      *)
(* balance (contexts/BalanceContext.js).                                   *)
(***************************************************************************)
VARIABLES
  inventoryItems,    \* the array of items: [id, name, basePrice, status, risk]
  selectedItemIds,   \* the set of selected item ids
  insuredItemIds,    \* the set of insured item ids
  balance,           \* the balance of the BalanceProvider
  currentDay         \* the game day the page shows

pageVars == <<inventoryItems, selectedItemIds, insuredItemIds, balance, currentDay>>

(***************************************************************************)
(* The state of the crafting page (app/crafting/page.js), whose            *)
(* inventoryItems is the same stored inventory, and the experience         *)
(* (contexts/ExperienceContext.js).                                        *)
(***************************************************************************)
VARIABLES
  selectedRecipe,    \* the id of the selected recipe, "null" for none
  selectedMaterials, \* material name -> the ids selected for it, in order
  craftingStats,     \* [itemsCrafted]
  unlockedRecipes,   \* the set of recipe ids unlocked so far
  toast,             \* the message of the last toast.success or toast.error
  experience         \* the experience of the ExperienceProvider

craftVars == <<selectedRecipe, selectedMaterials, craftingStats, unlockedRecipes, toast>>

(***************************************************************************)
(* The repairs and the sales of the inventory page.  The page's maps that  *)
(* only drive the display (oldPrices, priceAnimations, newTransactionIds,  *)
(* selectedItemForGraph) are left out.                                     *)
(***************************************************************************)
VARIABLES
  repairedItemIds,   \* the set of ids of repaired items
  checkedItemIds,    \* the set of ids of checked items
  checkingItems,     \* item id -> progress of the repair animation
  repairTimers,      \* the running animations: [itemId, upgrade, currentProgress]
  salesHistory       \* the profits of the last sales

repairVars == <<repairedItemIds, checkedItemIds, checkingItems, repairTimers, salesHistory>>

(***************************************************************************)
(* The price history (utils/rng.js) that localStorage keeps under          *)
(* "item-price-history", and the last call made on it.                     *)
(***************************************************************************)
VARIABLES
  storedPriceHistory, \* what localStorage holds under the key
  historyCall,        \* the last call: its function, arguments and outcome
  directCalls         \* calls of updatePriceHistory made one by one, capped

histVars == <<storedPriceHistory, historyCall, directCalls>>

(***************************************************************************)
(* The day counter of the top bar (components/TopBar.js) with the day      *)
(* localStorage keeps under "game-day", and the listings page              *)
(* (app/listings/page.js): the listings taken from the carousels and the   *)
(* selected listings.                                                      *)
(***************************************************************************)
VARIABLES
  storedDay,        \* localStorage["game-day"], parsed
  topBarDay,        \* day of the TopBar
  removedCardIds,   \* Set of listing ids
  removedCards      \* array of listings

shellVars == <<storedDay, topBarDay, removedCardIds, removedCards>>

\* The variables outside the function calls below.
appVars == <<pageVars, craftVars, experience, repairVars, shellVars>>

\* The variables of the function calls.
fnVars ==
  <<value, daily, earlier, pc, since, gen, adjusted, selling, chance, craft, histVars>>

\* Nothing is stored under the key: localStorage.getItem returns null.
NoHistory == [kind |-> "missing", entries |-> <<>>]

\* No call yet; before is the value stored when the call started.
NoHistoryCall ==
  [fn |-> "none", itemId |-> 0, day |-> 0, price |-> 0, before |-> NoHistory,
   threw |-> FALSE, result |-> <<>>]

ShellIdle ==
  /\ storedDay = 1
  /\ topBarDay = 1
  /\ removedCardIds = {}
  /\ removedCards = <<>>

HistoryIdle ==
  /\ storedPriceHistory = NoHistory
  /\ historyCall = NoHistoryCall
  /\ directCalls = 0

MaterialNames ==
  {"Dragon Scale", "Phoenix Feather", "Moonlight Staff", "Mystic Orb", "Chaos Wand",
   "Obsidian Axe"}

\* new Map(): no material name has a selection.
NoMaterials == [name \in MaterialNames |-> <<>>]

\* The crafting page with nothing loaded.
CraftIdle ==
  /\ selectedRecipe = "null"
  /\ selectedMaterials = NoMaterials
  /\ craftingStats = [itemsCrafted |-> 0]
  /\ unlockedRecipes = {}
  /\ toast = "none"

\* No repair has been started and nothing has been sold.
RepairIdle ==
  /\ repairedItemIds = {}
  /\ checkedItemIds = {}
  /\ checkingItems = <<>>
  /\ repairTimers = <<>>
  /\ salesHistory = <<>>

\* The pages with nothing loaded.
AppIdle ==
  /\ inventoryItems = <<>>
  /\ selectedItemIds = {}
  /\ insuredItemIds = {}
  /\ balance = 0
  /\ currentDay = 1
  /\ CraftIdle
  /\ experience = 0
  /\ RepairIdle
  /\ ShellIdle
  /\ HistoryIdle

Functions ==
  {"calculateDailyPrice", "seededRandom", "calculateRiskAdjustedPrice",
   "calculateRiskAdjustedSellingPrice", "randomChance", "calculateSuccessRate"}

vars == <<fnVars, appVars>>

Init ==
  /\ AppIdle
  /\ pc \in Functions
  /\ value = 0
  /\ earlier = NoCall
  /\ since = 0
  /\ daily \in IF pc = "calculateDailyPrice"
                 THEN {DailyArgs(b, d, i, n, f) :
                         b \in BasePrices, d \in Days, i \in ItemIds, n \in ItemNames,
                         f \in FluctuationRanges}
                 ELSE {NoCall}
  /\ gen \in IF pc = "seededRandom"
               THEN {[seed |-> s, value |-> seededRandom(s), draws |-> 0, out |-> 0] :
                       s \in Seeds}
               ELSE {NoGen}
  /\ adjusted \in IF pc = "calculateRiskAdjustedPrice"
                    THEN {[NoAdjusted EXCEPT !.basePrice = b, !.risk = r] :
                            b \in BasePrices \cup {500 * PriceUnit}, r \in Risks}
                    ELSE {NoAdjusted}
  /\ selling \in IF pc = "calculateRiskAdjustedSellingPrice"
                   THEN {[NoSelling EXCEPT !.basePrice = b, !.risk = r,
                                           !.floorPricePercentage = f, !.draw = x] :
                           b \in SellingBasePrices, r \in SellingRisks,
                           f \in FloorPercentages, x \in Draws}
                   ELSE {NoSelling}
  /\ chance \in IF pc = "randomChance"
                  THEN {[NoChance EXCEPT !.chance = c, !.draw = x] :
                          c \in Chances, x \in Draws}
                  ELSE {NoChance}
  /\ craft \in IF pc = "calculateSuccessRate"
                 THEN {[NoCraft EXCEPT !.recipe = [baseSuccessRate |-> b, qualityBonus |-> q],
                                       !.materials = m] :
                         b \in BaseSuccessRates, q \in QualityBonuses,
                         m \in SeqsUpTo(Statuses, MaxMaterials)}
                 ELSE {NoCraft}

ApplyDailyPrice ==
  /\ pc = "calculateDailyPrice"
  /\ CallDailyPrice(daily.basePrice, daily.currentDay, daily.itemId, daily.itemName,
                    daily.fluctuationRange)
  /\ pc' = "done"
  /\ UNCHANGED <<earlier, since, gen, adjusted, selling, chance, craft, histVars, appVars>>

\* One call of the generator: it updates its variable and returns value / 233280.
GenRandom ==
  /\ pc = "seededRandom"
  /\ gen.draws < MaxDraws
  /\ gen' = [gen EXCEPT !.value = random(gen.value),
                        !.draws = gen.draws + 1,
                        !.out = randomValue(random(gen.value))]
  /\ UNCHANGED <<value, daily, earlier, pc, since, adjusted, selling, chance, craft,
                 histVars, appVars>>

ApplyRiskAdjustedPrice ==
  /\ pc = "calculateRiskAdjustedPrice"
  /\ adjusted' = [adjusted EXCEPT
                    !.called = TRUE,
                    !.result = calculateRiskAdjustedPrice(adjusted.basePrice, adjusted.risk)]
  /\ pc' = "done"
  /\ UNCHANGED <<value, daily, earlier, since, gen, selling, chance, craft, histVars, appVars>>

ApplySellingPrice ==
  /\ pc = "calculateRiskAdjustedSellingPrice"
  /\ selling' = [selling EXCEPT
                   !.called = TRUE,
                   !.result = calculateRiskAdjustedSellingPrice(
                                selling.basePrice, selling.risk,
                                selling.floorPricePercentage, selling.draw)]
  /\ pc' = "done"
  /\ UNCHANGED <<value, daily, earlier, since, gen, adjusted, chance, craft, histVars, appVars>>

ApplyRandomChance ==
  /\ pc = "randomChance"
  /\ chance' = [chance EXCEPT !.called = TRUE,
                              !.result = randomChance(chance.chance, chance.draw)]
  /\ pc' = "done"
  /\ UNCHANGED <<value, daily, earlier, since, gen, adjusted, selling, craft, histVars, appVars>>

ApplySuccessRate ==
  /\ pc = "calculateSuccessRate"
  /\ craft' = [craft EXCEPT !.called = TRUE,
                            !.result = calculateSuccessRate(craft.recipe, craft.materials)]
  /\ pc' = "done"
  /\ UNCHANGED <<value, daily, earlier, since, gen, adjusted, selling, chance, histVars, appVars>>

Next ==
  \/ ApplyDailyPrice
  \/ GenRandom
  \/ ApplyRiskAdjustedPrice
  \/ ApplySellingPrice
  \/ ApplyRandomChance
  \/ ApplySuccessRate

Spec == Init /\ [][Next]_vars

(***************************************************************************)
(* Sequences of calls of calculateDailyPrice, in any order.                *)
(***************************************************************************)
CallBasePrices == {10 * PriceUnit + 1, 100 * PriceUnit}
CallDays == {0, MaxDay}
CallFluctuationRanges == {150}

CallsInit ==
  /\ AppIdle
  /\ pc = "calls"
  /\ value = 0
  /\ daily = NoCall
  /\ earlier = NoCall
  /\ since = 0
  /\ gen = NoGen
  /\ adjusted = NoAdjusted
  /\ selling = NoSelling
  /\ chance = NoChance
  /\ craft = NoCraft

\* The next call; the call before it is remembered in `earlier`, or the
\* one remembered so far is kept.
NextCall(b, d, i, n, f) ==
  /\ pc = "calls"
  /\ CallDailyPrice(b, d, i, n, f)
  /\ \/ daily.called /\ earlier' = daily /\ since' = 1
     \/ earlier' = earlier /\ since' = IF earlier.called THEN Min(since + 1, MaxSince) ELSE 0
  /\ UNCHANGED <<pc, gen, adjusted, selling, chance, craft, histVars, appVars>>

CallsNext ==
  \E b \in CallBasePrices, d \in CallDays, i \in ItemIds, n \in ItemNames,
     f \in CallFluctuationRanges :
    NextCall(b, d, i, n, f)

CallsSpec == CallsInit /\ [][CallsNext]_vars

(***************************************************************************)
(* The inventory page: selection and insurance.                            *)
(***************************************************************************)
MaxItems == 2       \* items in the inventory

InitialBalance == 2000

InventoryNames == {"X"}
InventoryBasePrices == {200, 957}
InventoryRisks == {0, 15, 100}
InventoryStatuses == {"Common", "Legendary"}
InventoryDays == {1, 2}
InventoryBalances == {InitialBalance, 50}

\* The inventories of n items, with the ids 1..n.
RECURSIVE Inventories(_)
Inventories(n) ==
  IF n = 0 THEN {<<>>}
  ELSE {Append(inv, [id |-> n, name |-> nm, basePrice |-> b, status |-> st, risk |-> r]) :
          inv \in Inventories(n - 1), nm \in InventoryNames, b \in InventoryBasePrices,
          st \in InventoryStatuses, r \in InventoryRisks}

\* itemName.split('') with char.charCodeAt(0) of each character, for the
\* names the items below carry.
charCodesOf(itemName) ==
  CASE itemName = "X" -> <<88>>
    [] itemName = "Moonlight Staff" ->
         <<77, 111, 111, 110, 108, 105, 103, 104, 116, 32, 83, 116, 97, 102, 102>>
    [] itemName = "Mystic Orb" -> <<77, 121, 115, 116, 105, 99, 32, 79, 114, 98>>
    [] itemName = "Mystic Staff" -> <<77, 121, 115, 116, 105, 99, 32, 83, 116, 97, 102, 102>>

\* dailyPrice of itemsWithDailyPrices: calculateDailyPrice(basePrice,
\* currentDay, item.id, item.name), a whole amount as basePrice > 0.
dailyPriceOf(item, day) ==
  calculateDailyPrice(item.basePrice * PriceUnit, day, NumId(item.id),
                      charCodesOf(item.name), 150)
    \div PriceUnit

\* The premium with riskAdjustment = item.risk * 0.05.
insuranceCostTenfold(itemPrice, risk) ==
  MathRound(itemPrice * (100 + risk * 50), 1000)

\* insuranceCost of handleInsure: Math.round(itemPrice * (0.10 + risk * 0.005)),
\* the percentage in thousandths.
insuranceCost(itemPrice, risk) ==
  LET basePercentage == 100
      riskAdjustment == risk * 5
      insurancePercentage == basePercentage + riskAdjustment
  IN  MathRound(itemPrice * insurancePercentage, 1000)

\* array.filter(item => ids.has(item.id))
filterByIds(items, ids) == SelectSeq(items, LAMBDA item : item.id \in ids)

itemIds(items) == {items[k].id : k \in 1..Len(items)}

\* The premium of the first item alone.
totalInsuranceCostOfFirst(items, day) ==
  IF items = <<>> THEN 0
  ELSE insuranceCost(dailyPriceOf(Head(items), day), Head(items).risk)

\* totalCost of handleInsure: itemsToInsure.reduce((sum, item) => sum + insuranceCost, 0)
RECURSIVE totalInsuranceCost(_, _)
totalInsuranceCost(items, day) ==
  IF items = <<>> THEN 0
  ELSE insuranceCost(dailyPriceOf(Head(items), day), Head(items).risk)
       + totalInsuranceCost(Tail(items), day)

\* deductBalance(amount): Math.max(0, prevBalance - amount)
deductBalance(prevBalance, amount) == Max(0, prevBalance - amount)

PageInit ==
  /\ pc = "page"
  /\ value = 0
  /\ daily = NoCall
  /\ earlier = NoCall
  /\ since = 0
  /\ gen = NoGen
  /\ adjusted = NoAdjusted
  /\ selling = NoSelling
  /\ chance = NoChance
  /\ craft = NoCraft
  /\ inventoryItems \in UNION {Inventories(n) : n \in 0..MaxItems}
  /\ selectedItemIds = {}
  /\ insuredItemIds = {}
  /\ balance \in InventoryBalances
  /\ currentDay \in InventoryDays
  /\ CraftIdle
  /\ experience = 0
  /\ RepairIdle
  /\ ShellIdle
  /\ HistoryIdle

handleItemClick(itemId) ==
  /\ pc = "page"
  /\ selectedItemIds' = IF itemId \in selectedItemIds
                          THEN selectedItemIds \ {itemId}
                          ELSE selectedItemIds \cup {itemId}
  /\ UNCHANGED <<inventoryItems, insuredItemIds, balance, currentDay, shellVars, fnVars,
                 craftVars, experience, repairVars>>

handleSelectAll ==
  /\ pc = "page"
  /\ IF inventoryItems = <<>>
       THEN UNCHANGED selectedItemIds
       ELSE IF itemIds(inventoryItems) \subseteq selectedItemIds
         THEN selectedItemIds' = {}
         ELSE selectedItemIds' = itemIds(inventoryItems)
  /\ UNCHANGED <<inventoryItems, insuredItemIds, balance, currentDay, shellVars, fnVars,
                 craftVars, experience, repairVars>>

handleInsure ==
  /\ pc = "page"
  /\ LET selectedItems == filterByIds(inventoryItems, selectedItemIds)
         legendaryIds == {selectedItems[k].id : k \in {j \in 1..Len(selectedItems) :
                                                        selectedItems[j].status = "Legendary"}}
         insurableIds == {selectedItems[k].id : k \in {j \in 1..Len(selectedItems) :
                                                        selectedItems[j].status # "Legendary"}}
         uninsuredItemIds == insurableIds \ insuredItemIds
         itemsToInsure == filterByIds(inventoryItems, uninsuredItemIds)
         totalCost == totalInsuranceCost(itemsToInsure, currentDay)
     IN  IF selectedItemIds = {}
           THEN UNCHANGED <<selectedItemIds, insuredItemIds, balance>>
         ELSE IF insurableIds = {}
           THEN /\ selectedItemIds' = IF legendaryIds # {} THEN {} ELSE selectedItemIds
                /\ UNCHANGED <<insuredItemIds, balance>>
         ELSE IF uninsuredItemIds = {}
           THEN UNCHANGED <<selectedItemIds, insuredItemIds, balance>>
         ELSE IF balance < totalCost
           THEN UNCHANGED <<selectedItemIds, insuredItemIds, balance>>
         ELSE /\ balance' = deductBalance(balance, totalCost)
              /\ insuredItemIds' = insuredItemIds \cup uninsuredItemIds
              /\ selectedItemIds' = {}
  /\ UNCHANGED <<inventoryItems, currentDay, shellVars, fnVars, craftVars, experience, repairVars>>

PageNext ==
  \/ \E itemId \in 1..MaxItems : itemId \in itemIds(inventoryItems) /\ handleItemClick(itemId)
  \/ handleSelectAll
  \/ handleInsure

PageSpec == PageInit /\ [][PageNext]_vars

(***************************************************************************)
(* The crafting page: recipes, the selection of materials and handleCraft. *)
(***************************************************************************)
MaxCraftItems == 3  \* items in the inventory the crafting page loads

\* Three of the RECIPES, in their order: two unlocked ones and a locked one.
RECIPES ==
  <<[id |-> "legendary_armor",
     materials |-> <<[name |-> "Dragon Scale", quantity |-> 2],
                     [name |-> "Phoenix Feather", quantity |-> 1]>>,
     result |-> [name |-> "Legendary Armor", basePrice |-> 800, status |-> "Legendary",
                 risk |-> 5],
     baseSuccessRate |-> 60, qualityBonus |-> 20,
     unlocked |-> TRUE, unlockRequirement |-> "none"],
    [id |-> "mystic_staff",
     materials |-> <<[name |-> "Moonlight Staff", quantity |-> 1],
                     [name |-> "Mystic Orb", quantity |-> 1]>>,
     result |-> [name |-> "Mystic Staff", basePrice |-> 600, status |-> "Legendary",
                 risk |-> 8],
     baseSuccessRate |-> 75, qualityBonus |-> 12,
     unlocked |-> TRUE, unlockRequirement |-> "none"],
    [id |-> "chaos_weapon",
     materials |-> <<[name |-> "Chaos Wand", quantity |-> 1],
                     [name |-> "Obsidian Axe", quantity |-> 1]>>,
     result |-> [name |-> "Chaos Weapon", basePrice |-> 750, status |-> "Legendary",
                 risk |-> 20],
     baseSuccessRate |-> 55, qualityBonus |-> 25,
     unlocked |-> FALSE, unlockRequirement |-> "craft_10_items"]>>

RecipeSet == {RECIPES[k] : k \in 1..Len(RECIPES)}
recipeOf(id) == CHOOSE recipe \in RecipeSet : recipe.id = id

CRAFT_SUCCESS == 150
CRAFT_FAILURE == 25

\* isRecipeUnlocked(recipe, stats)
isRecipeUnlocked(recipe, stats) ==
  IF recipe.unlocked THEN TRUE
  ELSE IF recipe.unlockRequirement = "craft_5_items" THEN stats.itemsCrafted >= 5
  ELSE IF recipe.unlockRequirement = "craft_10_items" THEN stats.itemsCrafted >= 10
  ELSE IF recipe.unlockRequirement = "craft_15_items" THEN stats.itemsCrafted >= 15
  ELSE IF recipe.unlockRequirement = "craft_20_items" THEN stats.itemsCrafted >= 20
  ELSE FALSE

\* availableRecipes: the recipes a click can select.
availableRecipes ==
  {recipe \in RecipeSet :
     isRecipeUnlocked(recipe, craftingStats) \/ recipe.id \in unlockedRecipes}

\* getItemsByName(name)
getItemsByName(name) == SelectSeq(inventoryItems, LAMBDA item : item.name = name)

\* selected.map(id => inventoryItems.find(item => item.id === id)).filter(Boolean)
RECURSIVE findItems(_, _)
findItems(ids, items) ==
  IF ids = <<>> THEN <<>>
  ELSE LET found == SelectSeq(items, LAMBDA item : item.id = Head(ids))
       IN  (IF found = <<>> THEN <<>> ELSE <<Head(found)>>) \o findItems(Tail(ids), items)

\* getSelectedMaterialsForRecipe(recipe), from the k-th material on.
RECURSIVE getSelectedMaterialsFrom(_, _)
getSelectedMaterialsFrom(recipe, k) ==
  IF k > Len(recipe.materials) THEN <<>>
  ELSE findItems(selectedMaterials[recipe.materials[k].name], inventoryItems)
       \o getSelectedMaterialsFrom(recipe, k + 1)

getSelectedMaterialsForRecipe(recipe) == getSelectedMaterialsFrom(recipe, 1)

\* isRecipeReady(recipe), recipe not null.
isRecipeReady(recipe) ==
  \A k \in 1..Len(recipe.materials) :
    Len(selectedMaterials[recipe.materials[k].name]) = recipe.materials[k].quantity

\* inventoryItems.reduce((max, item) => Math.max(max, item.id || 0), 0)
maxIdOf(items) ==
  LET ids == {0} \cup itemIds(items)
  IN  CHOOSE max \in ids : \A id \in ids : id <= max

\* materialIds: every id held by selectedMaterials.
materialIdsOf(selected) ==
  UNION {{selected[name][k] : k \in 1..Len(selected[name])} : name \in DOMAIN selected}

\* The filter that keeps every item.
removeMaterialsKept(items, materialIds) == items

\* inventoryItems.filter(item => !materialIds.has(item.id))
removeMaterials(items, materialIds) ==
  SelectSeq(items, LAMBDA item : item.id \notin materialIds)

\* newItem of handleCraft; basePrice stands for its price, the formatted
\* result.basePrice.
newItemOf(result, items) ==
  [id |-> maxIdOf(items) + 1, name |-> result.name, basePrice |-> result.basePrice,
   status |-> result.status, risk |-> result.risk]

CraftItemNames == {"Dragon Scale", "Phoenix Feather", "Moonlight Staff", "Mystic Orb"}
CraftStatuses == {"Legendary", "Rare"}
CraftItemsCrafted == {0, 9}
CraftDraws == {0, 70 * DrawUnit, 100 * DrawUnit - 1}

\* The inventories of n materials, with the ids 1..n.
RECURSIVE CraftInventories(_)
CraftInventories(n) ==
  IF n = 0 THEN {<<>>}
  ELSE {Append(inv, [id |-> n, name |-> nm, basePrice |-> 100, status |-> st, risk |-> 10]) :
          inv \in CraftInventories(n - 1), nm \in CraftItemNames, st \in CraftStatuses}

\* The crafting page after its first effect has loaded the inventory and the
\* crafting stats.
CraftInit ==
  /\ pc = "crafting"
  /\ value = 0
  /\ daily = NoCall
  /\ earlier = NoCall
  /\ since = 0
  /\ gen = NoGen
  /\ adjusted = NoAdjusted
  /\ selling = NoSelling
  /\ chance = NoChance
  /\ craft = NoCraft
  /\ inventoryItems \in UNION {CraftInventories(n) : n \in 0..MaxCraftItems}
  /\ selectedItemIds = {}
  /\ insuredItemIds = {}
  /\ balance = InitialBalance
  /\ currentDay = 1
  /\ selectedRecipe = "null"
  /\ selectedMaterials = NoMaterials
  /\ craftingStats \in {[itemsCrafted |-> n] : n \in CraftItemsCrafted}
  /\ unlockedRecipes = {}
  /\ toast = "none"
  /\ experience = 0
  /\ RepairIdle
  /\ ShellIdle
  /\ HistoryIdle

\* The click on a recipe card.
selectRecipe(recipe) ==
  /\ pc = "crafting"
  /\ recipe \in availableRecipes
  /\ selectedRecipe' = recipe.id
  /\ selectedMaterials' = NoMaterials
  /\ UNCHANGED <<pageVars, craftingStats, unlockedRecipes, toast, experience, repairVars,
                 shellVars, fnVars>>

handleMaterialClick(recipe, materialName, item) ==
  /\ pc = "crafting"
  /\ \E k \in 1..Len(recipe.materials) :
       /\ recipe.materials[k].name = materialName
       /\ LET materialReq == recipe.materials[k]
              current == selectedMaterials[materialName]
          IN  IF \E j \in 1..Len(current) : current[j] = item.id
                THEN selectedMaterials' =
                       [selectedMaterials EXCEPT
                          ![materialName] = SelectSeq(current, LAMBDA id : id # item.id)]
                ELSE IF Len(current) >= materialReq.quantity
                  THEN UNCHANGED selectedMaterials
                  ELSE selectedMaterials' =
                         [selectedMaterials EXCEPT ![materialName] = Append(current, item.id)]
  /\ UNCHANGED <<pageVars, selectedRecipe, craftingStats, unlockedRecipes, toast, experience,
                 repairVars, shellVars, fnVars>>

\* The storage event of another tab that has taken the k-th item away.
handleStorageChange(k) ==
  /\ pc = "crafting"
  /\ k \in 1..Len(inventoryItems)
  /\ inventoryItems' = SubSeq(inventoryItems, 1, k - 1)
                       \o SubSeq(inventoryItems, k + 1, Len(inventoryItems))
  /\ UNCHANGED <<selectedItemIds, insuredItemIds, balance, currentDay, craftVars, experience,
                 repairVars, shellVars, fnVars>>

\* handleCraft when Math.random() * 100 is draw / DrawUnit.
handleCraft(draw) ==
  /\ pc = "crafting"
  /\ selectedRecipe # "null"
  /\ isRecipeReady(recipeOf(selectedRecipe))
  /\ LET recipe == recipeOf(selectedRecipe)
         materials == getSelectedMaterialsForRecipe(recipe)
         successRate ==
           calculateSuccessRate(recipe, [k \in 1..Len(materials) |-> materials[k].status])
         materialIds == materialIdsOf(selectedMaterials)
         newStats == [itemsCrafted |-> craftingStats.itemsCrafted + 1]
         newlyUnlocked == {r \in RecipeSet :
                             r.id \notin unlockedRecipes /\ isRecipeUnlocked(r, newStats)}
     IN  IF randomChance(successRate, draw * RateUnit)
           THEN /\ inventoryItems' =
                     Append(removeMaterials(inventoryItems, materialIds),
                            newItemOf(recipe.result, inventoryItems))
                /\ craftingStats' = newStats
                /\ unlockedRecipes' = unlockedRecipes \cup {r.id : r \in newlyUnlocked}
                /\ experience' = experience + CRAFT_FAILURE + CRAFT_SUCCESS
                /\ toast' = "success"
           ELSE /\ inventoryItems' = removeMaterials(inventoryItems, materialIds)
                /\ UNCHANGED <<craftingStats, unlockedRecipes>>
                /\ experience' = experience + CRAFT_FAILURE
                /\ toast' = "error"
  /\ selectedMaterials' = NoMaterials
  /\ selectedRecipe' = "null"
  /\ UNCHANGED <<selectedItemIds, insuredItemIds, balance, currentDay, repairVars,
                 shellVars, fnVars>>

CraftNext ==
  \/ \E recipe \in RecipeSet : selectRecipe(recipe)
  \/ \E materialName \in MaterialNames :
       \E k \in 1..Len(getItemsByName(materialName)) :
         /\ selectedRecipe # "null"
         /\ handleMaterialClick(recipeOf(selectedRecipe), materialName,
                                getItemsByName(materialName)[k])
  \/ \E k \in 1..MaxCraftItems : handleStorageChange(k)
  \/ \E draw \in CraftDraws : handleCraft(draw)

CraftSpec == CraftInit /\ [][CraftNext]_vars

(***************************************************************************)
(* The inventory page: repairs (handleCheck and its timers) and quick      *)
(* sales, together with selection and insurance.                           *)
(***************************************************************************)
MaxTimers == 2      \* repair animations running at once

QUICK_SALE_ITEM == 20
MAX_SALES_HISTORY == 20

\* The animation: progressIncrement = (UPDATE_INTERVAL_MS / REPAIR_DURATION_MS)
\* * 100, with an interval of 500 ms for the code's 50 ms.
REPAIR_DURATION_MS == 1000
UPDATE_INTERVAL_MS == 500
progressIncrement == (UPDATE_INTERVAL_MS * 100) \div REPAIR_DURATION_MS

statusProgression == <<"Damaged", "Common", "Uncommon", "Rare", "Legendary">>

\* getNextStatus(currentStatus), "null" for null
getNextStatus(currentStatus) ==
  LET found == {k \in 1..Len(statusProgression) : statusProgression[k] = currentStatus}
  IN  IF found = {} \/ found = {Len(statusProgression)}
        THEN "null"
        ELSE statusProgression[(CHOOSE k \in found : TRUE) + 1]

\* The new price without the increase.
repairedPriceUnchanged(basePrice) == basePrice

\* newPrice of handleCheck: Math.round(basePrice * 1.25)
repairedPrice(basePrice) == MathRound(basePrice * 5, 4)

\* next.set(key, entry) and next.delete(key) of a Map
mapSet(map, key, entry) ==
  [k \in DOMAIN map \cup {key} |-> IF k = key THEN entry ELSE map[k]]
mapDelete(map, key) == [k \in DOMAIN map \ {key} |-> map[k]]

\* The effect on a change of inventoryItems that clears, or filters to the
\* ids of the inventory, checkedItemIds and repairedItemIds.
cleanupIds(ids, items) == IF items = <<>> THEN {} ELSE ids \cap itemIds(items)

\* No refund at all.
totalRefundNone(failedRepairs, insured) == 0

\* totalRefund of handleCheck: the base prices of the insured failed items.
RECURSIVE totalRefundOf(_, _)
totalRefundOf(failedRepairs, insured) ==
  IF failedRepairs = <<>> THEN 0
  ELSE (IF Head(failedRepairs).id \in insured THEN Head(failedRepairs).basePrice ELSE 0)
       + totalRefundOf(Tail(failedRepairs), insured)

\* The intervals handleCheck starts, one for each successful repair, with
\* the upgrade its closure holds.
RECURSIVE timersOf(_)
timersOf(successfulRepairs) ==
  IF successfulRepairs = <<>> THEN <<>>
  ELSE LET item == Head(successfulRepairs)
       IN  <<[itemId |-> item.id,
              upgrade |-> [newStatus |-> getNextStatus(item.status),
                           newPrice |-> repairedPrice(item.basePrice)],
              currentProgress |-> 0]>>
           \o timersOf(Tail(successfulRepairs))

\* The running timers do not depend on the order in which they were started:
\* they are kept in the order of their item ids and progress.
timerBefore(a, b) ==
  a.itemId < b.itemId \/ (a.itemId = b.itemId /\ a.currentProgress <= b.currentProgress)

RECURSIVE sortTimers(_)
sortTimers(timers) ==
  IF timers = <<>> THEN <<>>
  ELSE LET rest == sortTimers(Tail(timers))
           before == SelectSeq(rest, LAMBDA t : timerBefore(t, Head(timers)))
           after == SelectSeq(rest, LAMBDA t : ~timerBefore(t, Head(timers)))
       IN  before \o <<Head(timers)>> \o after

\* next.set(id, 0) for each successful repair
RECURSIVE setAllChecking(_, _)
setAllChecking(map, ids) ==
  IF ids = {} THEN map
  ELSE LET id == CHOOSE x \in ids : TRUE
       IN  setAllChecking(mapSet(map, id, 0), ids \ {id})

\* The items paid at their base price.
RECURSIVE moneyGainedAtBase(_, _)
moneyGainedAtBase(itemsSold, day) ==
  IF itemsSold = <<>> THEN 0
  ELSE Head(itemsSold).basePrice + moneyGainedAtBase(Tail(itemsSold), day)

\* moneyGained of handleQuickSale
RECURSIVE moneyGainedOf(_, _)
moneyGainedOf(itemsSold, day) ==
  IF itemsSold = <<>> THEN 0
  ELSE dailyPriceOf(Head(itemsSold), day) + moneyGainedOf(Tail(itemsSold), day)

\* newSales of handleQuickSale: the profit of each item sold
RECURSIVE newSalesOf(_, _)
newSalesOf(itemsSold, day) ==
  IF itemsSold = <<>> THEN <<>>
  ELSE <<dailyPriceOf(Head(itemsSold), day) - Head(itemsSold).basePrice>>
       \o newSalesOf(Tail(itemsSold), day)

\* array.slice(-n)
sliceLast(array, n) ==
  IF Len(array) <= n THEN array ELSE SubSeq(array, Len(array) - n + 1, Len(array))

\* The filter that lets the repaired items through.
unrepairedAll(repairableItems, repaired) == repairableItems

\* unrepairedItems of handleCheck
unrepairedOf(repairableItems, repaired) ==
  SelectSeq(repairableItems, LAMBDA item : item.id \notin repaired)

\* handleCheck when Math.random() * 100 is draws[item.id] / DrawUnit in the
\* test of the item.
handleCheck(draws) ==
  /\ pc = "page"
  /\ selectedItemIds # {}
  /\ LET selectedItems == filterByIds(inventoryItems, selectedItemIds)
         legendaryItems == SelectSeq(selectedItems, LAMBDA item : item.status = "Legendary")
         repairableItems == SelectSeq(selectedItems, LAMBDA item : item.status # "Legendary")
         alreadyRepairedItems ==
           SelectSeq(repairableItems, LAMBDA item : item.id \in repairedItemIds)
         unrepairedItems == unrepairedOf(repairableItems, repairedItemIds)
         successfulRepairs ==
           SelectSeq(unrepairedItems, LAMBDA item : ~randomChance(item.risk, draws[item.id]))
         failedRepairs ==
           SelectSeq(unrepairedItems, LAMBDA item : randomChance(item.risk, draws[item.id]))
         failedItemIds == itemIds(failedRepairs)
         totalRefund == totalRefundOf(failedRepairs, insuredItemIds)
         remaining == SelectSeq(inventoryItems, LAMBDA item : item.id \notin failedItemIds)
     IN  IF unrepairedItems = <<>>
           THEN /\ selectedItemIds' =
                     IF legendaryItems # <<>> \/ alreadyRepairedItems # <<>>
                       THEN {} ELSE selectedItemIds
                /\ UNCHANGED <<inventoryItems, insuredItemIds, balance, experience,
                               repairVars>>
           ELSE /\ Len(repairTimers) + Len(successfulRepairs) <= MaxTimers
                /\ selectedItemIds' = {}
                /\ IF failedRepairs # <<>>
                     THEN /\ inventoryItems' = remaining
                          /\ checkedItemIds' =
                               cleanupIds(checkedItemIds \ failedItemIds, remaining)
                          /\ insuredItemIds' = insuredItemIds \ failedItemIds
                          /\ repairedItemIds' =
                               cleanupIds(repairedItemIds \ failedItemIds, remaining)
                          /\ balance' = IF totalRefund > 0 THEN balance + totalRefund
                                                          ELSE balance
                     ELSE UNCHANGED <<inventoryItems, checkedItemIds, insuredItemIds,
                                      repairedItemIds, balance>>
                /\ IF successfulRepairs = <<>>
                     THEN UNCHANGED <<experience, checkingItems, repairTimers>>
                     ELSE /\ experience' =
                               experience + Len(successfulRepairs) * QUICK_SALE_ITEM
                          /\ checkingItems' =
                               setAllChecking(checkingItems, itemIds(successfulRepairs))
                          /\ repairTimers' = sortTimers(repairTimers \o timersOf(successfulRepairs))
                /\ UNCHANGED salesHistory
  /\ UNCHANGED <<currentDay, craftVars, shellVars, fnVars>>

\* A tick of the k-th progress interval.
repairProgress(k) ==
  /\ pc = "page"
  /\ k \in 1..Len(repairTimers)
  /\ repairTimers[k].currentProgress < 100
  /\ LET timer == repairTimers[k]
         currentProgress == Min(100, timer.currentProgress + progressIncrement)
     IN  /\ repairTimers' =
              sortTimers([repairTimers EXCEPT ![k].currentProgress = currentProgress])
         /\ checkingItems' = mapSet(checkingItems, timer.itemId, currentProgress)
  /\ UNCHANGED <<pageVars, craftVars, experience, repairedItemIds, checkedItemIds,
                 salesHistory, shellVars, fnVars>>

\* The timeout that follows the last tick of the k-th interval: it applies
\* the upgrade and ends the animation.
repairComplete(k) ==
  /\ pc = "page"
  /\ k \in 1..Len(repairTimers)
  /\ repairTimers[k].currentProgress = 100
  /\ LET timer == repairTimers[k]
         itemId == timer.itemId
         upgrade == timer.upgrade
         upgraded ==
           [j \in 1..Len(inventoryItems) |->
              IF inventoryItems[j].id = itemId
                THEN [inventoryItems[j] EXCEPT !.status = upgrade.newStatus,
                                               !.basePrice = upgrade.newPrice]
                ELSE inventoryItems[j]]
     IN  /\ IF upgrade.newStatus # "null"
              THEN /\ inventoryItems' = upgraded
                   /\ checkedItemIds' = cleanupIds(checkedItemIds \cup {itemId}, upgraded)
                   /\ repairedItemIds' = cleanupIds(repairedItemIds \cup {itemId}, upgraded)
              ELSE UNCHANGED <<inventoryItems, checkedItemIds, repairedItemIds>>
         /\ checkingItems' = mapDelete(checkingItems, itemId)
         /\ repairTimers' = SubSeq(repairTimers, 1, k - 1)
                            \o SubSeq(repairTimers, k + 1, Len(repairTimers))
  /\ UNCHANGED <<selectedItemIds, insuredItemIds, balance, currentDay, craftVars, experience,
                 salesHistory, shellVars, fnVars>>

handleQuickSale ==
  /\ pc = "page"
  /\ selectedItemIds # {}
  /\ LET selectedItems == filterByIds(inventoryItems, selectedItemIds)
         itemsSold == selectedItems
         moneyGained == moneyGainedOf(itemsSold, currentDay)
         xpGained == Len(itemsSold) * QUICK_SALE_ITEM
         remaining == SelectSeq(inventoryItems, LAMBDA item : item.id \notin selectedItemIds)
     IN  /\ balance' = IF moneyGained > 0 THEN balance + moneyGained ELSE balance
         /\ experience' = IF xpGained > 0 THEN experience + xpGained ELSE experience
         /\ salesHistory' =
              IF itemsSold # <<>>
                THEN sliceLast(salesHistory \o newSalesOf(itemsSold, currentDay),
                               MAX_SALES_HISTORY)
                ELSE salesHistory
         /\ inventoryItems' = remaining
         /\ checkedItemIds' = cleanupIds(checkedItemIds, remaining)
         /\ repairedItemIds' = cleanupIds(repairedItemIds, remaining)
  /\ selectedItemIds' = {}
  /\ UNCHANGED <<insuredItemIds, currentDay, checkingItems, repairTimers, craftVars,
                 shellVars, fnVars>>

RepairDraws == {0, 50 * DrawUnit}

\* The items the inventories below are made of: two whose repair fails on
\* the low draw and succeeds on the high one, with a Legendary one of risk
\* 100 in between.
StockItems ==
  <<[basePrice |-> 202, status |-> "Damaged", risk |-> 15],
    [basePrice |-> 200, status |-> "Legendary", risk |-> 100],
    [basePrice |-> 957, status |-> "Rare", risk |-> 15],
    [basePrice |-> 202, status |-> "Damaged", risk |-> 15]>>

\* The inventories of up to n items that follow one another in StockItems,
\* with the ids 1, 2, ...
StockInventories(n) ==
  {[k \in 1..len |->
      [id |-> k, name |-> "X", basePrice |-> StockItems[from + k - 1].basePrice,
       status |-> StockItems[from + k - 1].status, risk |-> StockItems[from + k - 1].risk]] :
     <<from, len>> \in {w \in (1..Len(StockItems)) \X (0..n) :
                         w[1] + w[2] - 1 <= Len(StockItems)}}

\* The inventory page after its first effect has loaded the inventory.
InventoryInit ==
  /\ pc = "page"
  /\ value = 0
  /\ daily = NoCall
  /\ earlier = NoCall
  /\ since = 0
  /\ gen = NoGen
  /\ adjusted = NoAdjusted
  /\ selling = NoSelling
  /\ chance = NoChance
  /\ craft = NoCraft
  /\ inventoryItems \in StockInventories(MaxItems)
  /\ selectedItemIds = {}
  /\ insuredItemIds = {}
  /\ balance = InitialBalance
  /\ currentDay = 2
  /\ CraftIdle
  /\ experience = 0
  /\ RepairIdle
  /\ ShellIdle
  /\ HistoryIdle

\* The card of an item whose repair is shown does not pass the click on:
\* onClick={() => !isChecking && handleItemClick(item.id)}.
cardClick(itemId) ==
  /\ itemId \in itemIds(inventoryItems)
  /\ itemId \notin DOMAIN checkingItems
  /\ handleItemClick(itemId)

InventoryNext ==
  \/ \E itemId \in 1..MaxItems : cardClick(itemId)
  \/ handleSelectAll
  \/ handleInsure
  \/ \E draws \in [itemIds(inventoryItems) -> RepairDraws] : handleCheck(draws)
  \/ \E k \in 1..MaxTimers : repairProgress(k)
  \/ \E k \in 1..MaxTimers : repairComplete(k)
  \/ handleQuickSale

InventorySpec == InventoryInit /\ [][InventoryNext]_vars

\* The page with its timers running: an interval that is set ticks, and the
\* timeout of an interval that has reached 100 fires.
InventoryLiveSpec ==
  /\ InventorySpec
  /\ WF_vars(\E k \in 1..MaxTimers : repairProgress(k))
  /\ WF_vars(\E k \in 1..MaxTimers : repairComplete(k))

(***************************************************************************)
(* The price history.  The stored value is what JSON.parse makes of the    *)
(* string: kind "missing" (no string), "invalid" (not JSON), "null",       *)
(* "number" or "object"; an entry of the object is of kind "array" (its    *)
(* list of [day, price]), "falsy" (null, 0, "") or "other" (any other      *)
(* value that is not an array).  Item ids are numbers, which the object    *)
(* keys stand for.                                                         *)
(***************************************************************************)
MaxHistoryDay == 11  \* the last game day recorded
MaxDirectCalls == 1  \* calls of updatePriceHistory made one by one

MAX_HISTORY_DAYS == 10

\* loadPriceHistory(): what the caller gets.
loadPriceHistory(stored) ==
  IF stored.kind \in {"missing", "invalid"}
    THEN [kind |-> "object", entries |-> <<>>]
    ELSE stored

\* The outcome of a call: the stored value it leaves, what it returns and
\* whether it threw.
Outcome(stored, result, threw) == [stored |-> stored, result |-> result, threw |-> threw]

\* The search that finds nothing.
findIndexNone(list, day) == 0

\* priceHistory[itemId].findIndex(entry => entry.day === day), counted from 1;
\* 0 for -1.
findIndex(list, day) ==
  LET found == {k \in 1..Len(list) : list[k].day = day}
  IN  IF found = {} THEN 0 ELSE CHOOSE k \in found : \A j \in found : k <= j

\* priceHistory[itemId].sort((a, b) => a.day - b.day), a stable sort
RECURSIVE sortByDay(_)
sortByDay(list) ==
  IF list = <<>> THEN <<>>
  ELSE LET last == list[Len(list)]
           rest == sortByDay(SubSeq(list, 1, Len(list) - 1))
       IN  SelectSeq(rest, LAMBDA e : e.day <= last.day) \o <<last>>
           \o SelectSeq(rest, LAMBDA e : e.day > last.day)

\* The history kept whole.
keepAllDays(list, maxDays) == list

\* if (length > maxDays) slice(-maxDays)
keepLastDays(list, maxDays) ==
  IF Len(list) > maxDays THEN sliceLast(list, maxDays) ELSE list

\* The object with nothing but the history of the item.
withHistoryAlone(entries, itemId, list) ==
  [k \in {itemId} |-> [kind |-> "array", list |-> list]]

\* priceHistory[itemId] = list, the other keys as they are
withHistory(entries, itemId, list) ==
  mapSet(entries, itemId, [kind |-> "array", list |-> list])

\* updatePriceHistory(itemId, day, price, maxDays)
updatePriceHistory(stored, itemId, day, price, maxDays) ==
  LET priceHistory == loadPriceHistory(stored)
      entries == priceHistory.entries
      present == itemId \in DOMAIN entries /\ entries[itemId].kind # "falsy"
  IN  IF priceHistory.kind # "object" THEN Outcome(stored, <<>>, TRUE)
      ELSE IF present /\ entries[itemId].kind = "other" THEN Outcome(stored, <<>>, TRUE)
      ELSE LET list == IF present THEN entries[itemId].list ELSE <<>>
               existingIndex == findIndex(list, day)
               updated == IF existingIndex >= 1
                            THEN [list EXCEPT ![existingIndex].price = price]
                            ELSE Append(list, [day |-> day, price |-> price])
               kept == keepLastDays(sortByDay(updated), maxDays)
           IN  Outcome([kind |-> "object", entries |-> withHistory(entries, itemId, kept)],
                       <<>>, FALSE)

\* getPriceHistory(itemId); the result of an entry that is no array is the
\* entry itself, shown as <<>>.
getPriceHistory(stored, itemId) ==
  LET priceHistory == loadPriceHistory(stored)
  IN  IF priceHistory.kind = "null" THEN Outcome(stored, <<>>, TRUE)
      ELSE IF priceHistory.kind = "object" /\ itemId \in DOMAIN priceHistory.entries
                /\ priceHistory.entries[itemId].kind = "array"
        THEN Outcome(stored, priceHistory.entries[itemId].list, FALSE)
        ELSE Outcome(stored, <<>>, FALSE)

\* updateAllItemsPriceHistory(items, currentDay): items.forEach, which a
\* throwing call leaves with the earlier items written.
RECURSIVE updateAllItemsPriceHistory(_, _, _)
updateAllItemsPriceHistory(stored, items, day) ==
  IF items = <<>> THEN Outcome(stored, <<>>, FALSE)
  ELSE LET item == Head(items)
           first == IF item.basePrice > 0
                      THEN updatePriceHistory(stored, item.id, day, dailyPriceOf(item, day),
                                              MAX_HISTORY_DAYS)
                      ELSE Outcome(stored, <<>>, FALSE)
       IN  IF first.threw THEN first
           ELSE updateAllItemsPriceHistory(first.stored, Tail(items), day)

\* cleanupPriceHistory(currentItems): Object.keys of null throws and those of
\* a number are none.
cleanupPriceHistory(stored, currentItems) ==
  LET priceHistory == loadPriceHistory(stored)
      currentItemIds == itemIds(currentItems)
  IN  IF priceHistory.kind = "null" THEN Outcome(stored, <<>>, TRUE)
      ELSE IF priceHistory.kind = "number" THEN Outcome(priceHistory, <<>>, FALSE)
      ELSE Outcome([kind |-> "object",
                    entries |-> [k \in DOMAIN priceHistory.entries \cap currentItemIds |->
                                   priceHistory.entries[k]]],
                   <<>>, FALSE)

\* The values found under the key when the page starts.
HistoryStores ==
  {NoHistory,
   [kind |-> "invalid", entries |-> <<>>],
   [kind |-> "null", entries |-> <<>>],
   [kind |-> "number", entries |-> <<>>],
   [kind |-> "object", entries |-> [k \in {1} |-> [kind |-> "falsy", list |-> <<>>]]],
   [kind |-> "object", entries |-> [k \in {1} |-> [kind |-> "other", list |-> <<>>]]]}

\* The inventory whose prices are recorded.
HistoryInventory ==
  <<[id |-> 1, name |-> "X", basePrice |-> 957, status |-> "Rare", risk |-> 15],
    [id |-> 2, name |-> "X", basePrice |-> 200, status |-> "Legendary", risk |-> 100]>>

HistoryItemIds == {1, 3}
HistoryPrices == {7, 8}

HistoryInit ==
  /\ pc = "history"
  /\ value = 0
  /\ daily = NoCall
  /\ earlier = NoCall
  /\ since = 0
  /\ gen = NoGen
  /\ adjusted = NoAdjusted
  /\ selling = NoSelling
  /\ chance = NoChance
  /\ craft = NoCraft
  /\ inventoryItems = HistoryInventory
  /\ selectedItemIds = {}
  /\ insuredItemIds = {}
  /\ balance = InitialBalance
  /\ currentDay = 1
  /\ CraftIdle
  /\ experience = 0
  /\ RepairIdle
  /\ ShellIdle
  /\ storedPriceHistory \in HistoryStores
  /\ historyCall = NoHistoryCall
  /\ directCalls = 0

\* The state a call leaves.
AfterCall(fn, itemId, day, price, outcome) ==
  /\ storedPriceHistory' = outcome.stored
  /\ historyCall' = [fn |-> fn, itemId |-> itemId, day |-> day, price |-> price,
                     before |-> storedPriceHistory, threw |-> outcome.threw,
                     result |-> outcome.result]

CallLoadPriceHistory ==
  /\ pc = "history"
  /\ AfterCall("loadPriceHistory", 0, 0, 0,
               Outcome(storedPriceHistory, loadPriceHistory(storedPriceHistory).kind, FALSE))
  /\ UNCHANGED <<directCalls, value, daily, earlier, pc, since, gen, adjusted, selling, chance,
                 craft, appVars>>

CallGetPriceHistory(itemId) ==
  /\ pc = "history"
  /\ AfterCall("getPriceHistory", itemId, 0, 0, getPriceHistory(storedPriceHistory, itemId))
  /\ UNCHANGED <<directCalls, value, daily, earlier, pc, since, gen, adjusted, selling, chance,
                 craft, appVars>>

CallUpdatePriceHistory(itemId, day, price) ==
  /\ pc = "history"
  /\ directCalls < MaxDirectCalls
  /\ directCalls' = directCalls + 1
  /\ AfterCall("updatePriceHistory", itemId, day, price,
               updatePriceHistory(storedPriceHistory, itemId, day, price, MAX_HISTORY_DAYS))
  /\ UNCHANGED <<value, daily, earlier, pc, since, gen, adjusted, selling, chance, craft,
                 appVars>>

\* The effect of the inventory page that records the prices of the day, on
\* the day the page shows, on the next day, or on day 1 after a reset.
CallUpdateAllItemsPriceHistory(day) ==
  /\ pc = "history"
  /\ day \in {currentDay, currentDay + 1, 1}
  /\ day <= MaxHistoryDay
  /\ currentDay' = day
  /\ AfterCall("updateAllItemsPriceHistory", 0, day, 0,
               updateAllItemsPriceHistory(storedPriceHistory, inventoryItems, day))
  /\ UNCHANGED <<directCalls, value, daily, earlier, pc, since, gen, adjusted, selling, chance,
                 craft, inventoryItems, selectedItemIds, insuredItemIds, balance, craftVars,
                 experience, repairVars, shellVars>>

\* The effect of the inventory page that drops the histories of the items
\* that are gone.
CallCleanupPriceHistory ==
  /\ pc = "history"
  /\ AfterCall("cleanupPriceHistory", 0, 0, 0,
               cleanupPriceHistory(storedPriceHistory, inventoryItems))
  /\ UNCHANGED <<directCalls, value, daily, earlier, pc, since, gen, adjusted, selling, chance,
                 craft, appVars>>

HistoryNext ==
  \/ CallLoadPriceHistory
  \/ \E itemId \in HistoryItemIds : CallGetPriceHistory(itemId)
  \/ \E itemId \in HistoryItemIds, day \in {1, currentDay}, price \in HistoryPrices :
       CallUpdatePriceHistory(itemId, day, price)
  \/ \E day \in 1..MaxHistoryDay : CallUpdateAllItemsPriceHistory(day)
  \/ CallCleanupPriceHistory

HistorySpec == HistoryInit /\ [][HistoryNext]_vars

(***************************************************************************)
(* The game day: the TopBar counts the days in its own state and stores    *)
(* each new day; the inventory page, mounted below it, follows the stored  *)
(* day and resets it.                                                      *)
(***************************************************************************)
MaxGameDay == 20    \* the last day the TopBar counts to

\* The days on which the page is opened, the game having run for a while.
GameDays == {2, 3}

DayInit ==
  /\ pc = "page"
  /\ value = 0
  /\ daily = NoCall
  /\ earlier = NoCall
  /\ since = 0
  /\ gen = NoGen
  /\ adjusted = NoAdjusted
  /\ selling = NoSelling
  /\ chance = NoChance
  /\ craft = NoCraft
  /\ inventoryItems = <<>>
  /\ selectedItemIds = {}
  /\ insuredItemIds = {}
  /\ balance = InitialBalance
  /\ storedDay \in GameDays
  /\ topBarDay = storedDay
  /\ currentDay = storedDay
  /\ removedCardIds = {}
  /\ removedCards = <<>>
  /\ CraftIdle
  /\ experience = 0
  /\ RepairIdle
  /\ HistoryIdle

\* The interval of the TopBar: setDay(prevDay => prevDay + 1), the new day
\* stored at once.
dayTick ==
  /\ pc = "page"
  /\ topBarDay < MaxGameDay
  /\ topBarDay' = topBarDay + 1
  /\ storedDay' = topBarDay + 1
  /\ UNCHANGED <<pageVars, craftVars, experience, repairVars, removedCardIds, removedCards,
                 fnVars>>

\* syncDay of the inventory page, run by its interval; the storage event of
\* a new day sets the same value.
syncDay ==
  /\ pc = "page"
  /\ currentDay' = storedDay
  /\ UNCHANGED <<inventoryItems, selectedItemIds, insuredItemIds, balance, craftVars,
                 experience, repairVars, shellVars, fnVars>>

\* handleResetDays of the inventory page; the storage event it dispatches
\* reaches the listener of the page, the TopBar having none for the day.
handleResetDays ==
  /\ pc = "page"
  /\ storedDay' = 1
  /\ currentDay' = 1
  /\ UNCHANGED <<inventoryItems, selectedItemIds, insuredItemIds, balance, craftVars,
                 experience, repairVars, topBarDay, removedCardIds, removedCards, fnVars>>

\* The page loaded again: the TopBar and the inventory page take the stored
\* day.
reloadPage ==
  /\ pc = "page"
  /\ topBarDay' = storedDay
  /\ currentDay' = storedDay
  /\ UNCHANGED <<inventoryItems, selectedItemIds, insuredItemIds, balance, craftVars,
                 experience, repairVars, storedDay, removedCardIds, removedCards, fnVars>>

DayNext ==
  \/ dayTick
  \/ syncDay
  \/ handleResetDays
  \/ reloadPage

DaySpec == DayInit /\ [][DayNext]_vars

(***************************************************************************)
(* The game across its pages: the listings page (app/listings/page.js),    *)
(* the crafting page and the inventory page. They share the inventory      *)
(* localStorage keeps under "inventory-items", the balance and the         *)
(* experience; the state of a page is lost when the page is left, except   *)
(* for what the page stores.                                               *)
(***************************************************************************)
MaxListings == 2        \* listings of the row added to the listings page
MaxExperience == 40     \* experience up to which purchases, moves, crafts, repairs and sales go on

PURCHASE_ITEM == 10
MOVE_TO_INVENTORY == 5
MAX_BACKPACK_CAPACITY == 500

DigitChars == <<"0", "1", "2", "3", "4", "5", "6", "7", "8", "9">>

RECURSIVE digitsOf(_)
digitsOf(n) ==
  IF n < 10 THEN <<DigitChars[n + 1]>>
  ELSE digitsOf(n \div 10) \o <<DigitChars[(n % 10) + 1]>>

\* The grouping of toLocaleString("en-US"): a comma before every three digits.
RECURSIVE groupDigits(_)
groupDigits(digits) ==
  IF Len(digits) <= 3 THEN digits
  ELSE groupDigits(SubSeq(digits, 1, Len(digits) - 3)) \o <<",">>
       \o SubSeq(digits, Len(digits) - 2, Len(digits))

\* formatPrice(price) of a whole price, "$1,234", as its characters.
formatPrice(price) == <<"$">> \o groupDigits(digitsOf(price))

RECURSIVE parseDigits(_)
parseDigits(chars) ==
  IF chars = <<>> THEN 0
  ELSE parseDigits(SubSeq(chars, 1, Len(chars) - 1)) * 10
       + (CHOOSE d \in 0..9 : DigitChars[d + 1] = chars[Len(chars)])

\* parseFloat(listing.price.replace(/[^0-9.-]+/g, "")); a formatted price
\* has no "." and no "-".
parsePrice(text) ==
  parseDigits(SelectSeq(text, LAMBDA c : \E d \in 1..10 : DigitChars[d] = c))

\* A listing of handleAddListingsRow: extra is randomInt(50), and status,
\* risk and itemName are the values drawn for it.
newListing(id, itemName, status, risk, extra, day) ==
  LET basePrice == 10 + id * 3 + extra
      riskAdjustedBasePrice == calculateRiskAdjustedPrice(basePrice * PriceUnit, risk)
      dailyPrice ==
        calculateDailyPrice(riskAdjustedBasePrice * PriceUnit, day, NumId(id),
                            charCodesOf(itemName), 150) \div PriceUnit
  IN  [id |-> id, name |-> itemName, basePrice |-> riskAdjustedBasePrice,
       price |-> formatPrice(dailyPrice), status |-> status, risk |-> risk]

\* nextDynamicId at first: the ids 1..100 and 101..150 are those of the
\* listings of the two carousels.
nextDynamicId == 151

ListingNames == <<"Moonlight Staff", "Mystic Orb">>
ListingStatuses == <<"Common", "Rare">>

\* The row of listings added on day 1, of MaxListings listings for the
\* ROW_LENGTH of the code.
extraListingRow ==
  [k \in 1..MaxListings |->
     newListing(nextDynamicId + (k - 1), ListingNames[((k - 1) % 2) + 1],
                ListingStatuses[((k - 1) % 2) + 1], 15, 0, 1)]

\* Every listing taken as not removed yet.
alreadyRemovedNever(listing) == FALSE

\* removedCardIds.has(listing.id)
alreadyRemoved(listing) == listing.id \in removedCardIds

\* handleCardClick(listing); toast is the kind of the last message shown.
handleCardClick(listing) ==
  /\ pc = "listings"
  /\ LET price == parsePrice(listing.price)
     IN  IF alreadyRemoved(listing)
           THEN UNCHANGED <<balance, experience, removedCardIds, removedCards, toast>>
         ELSE IF balance < price
           THEN /\ toast' = "insufficient"
                /\ UNCHANGED <<balance, experience, removedCardIds, removedCards>>
         ELSE /\ balance' = deductBalance(balance, price)
              /\ experience' = experience + PURCHASE_ITEM
              /\ removedCardIds' = removedCardIds \cup {listing.id}
              /\ removedCards' =
                   IF \E k \in 1..Len(removedCards) : removedCards[k].id = listing.id
                     THEN removedCards
                     ELSE Append(removedCards, listing)
              /\ UNCHANGED toast
  /\ UNCHANGED <<inventoryItems, selectedItemIds, insuredItemIds, currentDay, selectedRecipe,
                 selectedMaterials, craftingStats, unlockedRecipes, repairVars, storedDay,
                 topBarDay, fnVars>>

\* handleRemoveCard(listing) of a selected listing
handleRemoveCard(listing) ==
  /\ pc = "listings"
  /\ balance' = balance + parsePrice(listing.price)
  /\ removedCards' = SelectSeq(removedCards, LAMBDA card : card.id # listing.id)
  /\ toast' = "removed"
  /\ UNCHANGED <<inventoryItems, selectedItemIds, insuredItemIds, currentDay, selectedRecipe,
                 selectedMaterials, craftingStats, unlockedRecipes, experience, repairVars,
                 storedDay, topBarDay, removedCardIds, fnVars>>

\* The whole backpack taken as free.
availableSpaceOfEmpty(existingInventory) == MAX_BACKPACK_CAPACITY

\* availableSpace of handleMoveToInventory
availableSpaceOf(existingInventory) == MAX_BACKPACK_CAPACITY - Len(existingInventory)

\* Every item given the id that follows maxId.
newIdFirst(maxId, index) == maxId + 1

\* newId of handleMoveToInventory, index counting from 0
newIdOf(maxId, index) == maxId + index + 1

\* handleMoveToInventory; existingInventory is read from localStorage.
handleMoveToInventory ==
  /\ pc = "listings"
  /\ LET existingInventory == inventoryItems
         currentCount == Len(existingInventory)
         availableSpace == availableSpaceOf(existingInventory)
         itemsToAdd == SubSeq(removedCards, 1, Min(Len(removedCards), availableSpace))
         maxId == maxIdOf(existingInventory)
         itemsWithUniqueIds ==
           [k \in 1..Len(itemsToAdd) |->
              [itemsToAdd[k] EXCEPT !.id = newIdOf(maxId, k - 1)]]
     IN  IF removedCards = <<>>
           THEN /\ toast' = "nothing selected"
                /\ UNCHANGED <<inventoryItems, experience, removedCards>>
         ELSE IF currentCount >= MAX_BACKPACK_CAPACITY
           THEN /\ toast' = "full"
                /\ UNCHANGED <<inventoryItems, experience, removedCards>>
         ELSE IF Len(removedCards) > availableSpace
           THEN /\ toast' = "no space"
                /\ UNCHANGED <<inventoryItems, experience, removedCards>>
         ELSE /\ inventoryItems' = existingInventory \o itemsWithUniqueIds
              /\ experience' = experience + Len(itemsToAdd) * MOVE_TO_INVENTORY
              /\ removedCards' = <<>>
              /\ toast' = "moved"
  /\ UNCHANGED <<selectedItemIds, insuredItemIds, balance, currentDay, selectedRecipe,
                 selectedMaterials, craftingStats, unlockedRecipes, repairVars, storedDay,
                 topBarDay, removedCardIds, fnVars>>

ShopPages == {"listings", "crafting", "page"}

\* The link to another page, taken when the last message has gone: the page
\* that is left loses its state, its timers included, and the page that is
\* entered loads what is stored; the inventory page keeps of the stored
\* checked and repaired ids those of the items it has loaded.
navigate(page) ==
  /\ pc \in ShopPages
  /\ page # pc
  /\ pc' = page
  /\ removedCardIds' = {}
  /\ removedCards' = <<>>
  /\ selectedRecipe' = "null"
  /\ selectedMaterials' = NoMaterials
  /\ toast' = "none"
  /\ selectedItemIds' = {}
  /\ insuredItemIds' = {}
  /\ checkingItems' = <<>>
  /\ repairTimers' = <<>>
  /\ IF page = "page"
       THEN /\ checkedItemIds' = checkedItemIds \cap itemIds(inventoryItems)
            /\ repairedItemIds' = repairedItemIds \cap itemIds(inventoryItems)
       ELSE UNCHANGED <<checkedItemIds, repairedItemIds>>
  /\ UNCHANGED <<inventoryItems, balance, currentDay, craftingStats, unlockedRecipes,
                 experience, salesHistory, storedDay, topBarDay, value, daily, earlier,
                 since, gen, adjusted, selling, chance, craft, histVars>>

\* The numbers of items stored at first, none and one less than the backpack
\* holds, with the balance.
ShopStored ==
  {<<0, InitialBalance>>, <<0, 500>>, <<MAX_BACKPACK_CAPACITY - 1, InitialBalance>>}

\* The inventory of n crafted items (the newItem of the recipe mystic_staff)
\* with the ids 1..n.
storedInventory(n) ==
  [k \in 1..n |-> [id |-> k, name |-> "Mystic Staff", basePrice |-> 600,
                   status |-> "Legendary", risk |-> 8]]

\* The listings page, loaded with a row of listings added.
ShopInit ==
  /\ pc = "listings"
  /\ value = 0
  /\ daily = NoCall
  /\ earlier = NoCall
  /\ since = 0
  /\ gen = NoGen
  /\ adjusted = NoAdjusted
  /\ selling = NoSelling
  /\ chance = NoChance
  /\ craft = NoCraft
  /\ \E stored \in ShopStored :
       /\ inventoryItems = storedInventory(stored[1])
       /\ balance = stored[2]
  /\ selectedItemIds = {}
  /\ insuredItemIds = {}
  /\ currentDay = 1
  /\ CraftIdle
  /\ experience = 0
  /\ RepairIdle
  /\ ShellIdle
  /\ HistoryIdle

\* The cards of the inventory page that are clicked: those of the last
\* MaxItems items.
lastItemIds ==
  {inventoryItems[k].id :
     k \in {j \in 1..Len(inventoryItems) : j > Len(inventoryItems) - MaxItems}}

\* The clicks that bring experience are followed while the experience is at
\* most MaxExperience.
ShopNext ==
  \/ \E page \in ShopPages : navigate(page)
  \/ \E k \in 1..MaxListings :
       /\ experience <= MaxExperience
       /\ handleCardClick(extraListingRow[k])
  \/ \E k \in 1..MaxListings :
       /\ k <= Len(removedCards)
       /\ handleRemoveCard(removedCards[k])
  \/ /\ experience <= MaxExperience
     /\ handleMoveToInventory
  \/ \E recipe \in RecipeSet : selectRecipe(recipe)
  \/ \E materialName \in MaterialNames :
       \E k \in 1..Len(getItemsByName(materialName)) :
         /\ selectedRecipe # "null"
         /\ handleMaterialClick(recipeOf(selectedRecipe), materialName,
                                getItemsByName(materialName)[k])
  \/ \E draw \in CraftDraws :
       /\ experience <= MaxExperience
       /\ handleCraft(draw)
  \/ \E itemId \in lastItemIds : cardClick(itemId)
  \/ \E draws \in [selectedItemIds -> RepairDraws] :
       /\ experience <= MaxExperience
       /\ handleCheck(draws)
  \/ \E k \in 1..MaxTimers : repairProgress(k)
  \/ \E k \in 1..MaxTimers : repairComplete(k)
  \/ /\ experience <= MaxExperience
     /\ handleQuickSale

ShopSpec == ShopInit /\ [][ShopNext]_vars

(***************************************************************************)
(* Properties.                                                             *)
(***************************************************************************)
SameArguments(a, b) ==
  /\ a.basePrice = b.basePrice
  /\ a.currentDay = b.currentDay
  /\ a.itemId = b.itemId
  /\ a.itemName = b.itemName
  /\ a.fluctuationRange = b.fluctuationRange

IsExampleCall(c) ==
  /\ c.basePrice = 100 * PriceUnit
  /\ c.currentDay = 5
  /\ c.itemId = NumId(1)
  /\ c.itemName = <<88>>
  /\ c.fluctuationRange = 150

\* C2: for basePrice > 0 and day >= 1 the daily price is an integer, at
\* least 1, between basePrice * (1 - fluctuationRange) rounded down and
\* basePrice * (1 + fluctuationRange) rounded up; calculateDailyPrice(100,
\* 5, 1, "X", 0.15) is in [85, 115].
DailyPriceIsBounded ==
  (daily.called /\ daily.basePrice > 0 /\ daily.currentDay >= 1) =>
    LET b == daily.basePrice
        f == daily.fluctuationRange
        low == (b * (1000 - f)) \div (1000 * PriceUnit)
        high == 0 - ((0 - b * (1000 + f)) \div (1000 * PriceUnit))
    IN  /\ daily.result % PriceUnit = 0
        /\ daily.result >= 1 * PriceUnit
        /\ low * PriceUnit <= daily.result
        /\ daily.result <= high * PriceUnit
        /\ IsExampleCall(daily) =>
             (85 * PriceUnit <= daily.result /\ daily.result <= 115 * PriceUnit)

\* C2, its case: calculateDailyPrice(100, 5, 1, "X", 0.15) has returned (106).
DailyPriceOfExample ==
  daily.called /\ IsExampleCall(daily) /\ daily.result = 106 * PriceUnit

\* C3: for day < 1 and basePrice > 0 calculateDailyPrice returns
\* round(basePrice), an integer.
DayBelowOneReturnsRounded ==
  (daily.called /\ daily.basePrice > 0 /\ daily.currentDay < 1) =>
    daily.result = MathRound(daily.basePrice, PriceUnit) * PriceUnit

DifferOnlyInId(a, b) ==
  /\ a.itemId # b.itemId
  /\ a.itemName = b.itemName
  /\ MathFloor(a.basePrice, PriceUnit) = MathFloor(b.basePrice, PriceUnit)

\* C4: two items that differ only in their id derive different seeds, and
\* different seeds for the same day.
IdsSeparateSeeds ==
  (daily.called /\ earlier.called /\ DifferOnlyInId(daily, earlier)) =>
    /\ generateItemSeed(daily.itemId, daily.itemName, daily.basePrice)
         # generateItemSeed(earlier.itemId, earlier.itemName, earlier.basePrice)
    /\ daily.currentDay = earlier.currentDay =>
         daySeedOf(daily.basePrice, daily.currentDay, daily.itemId, daily.itemName)
           # daySeedOf(earlier.basePrice, earlier.currentDay, earlier.itemId,
                       earlier.itemName)

\* (v * 9301 + 49297) mod 233280 for v >= 0, with 9301 = 9000 + 301.
LcgReference(v) ==
  ((((v % LcgModulus) * 9000) % LcgModulus) + ((v % LcgModulus) * 301) + 49297) % LcgModulus

RECURSIVE LcgIterate(_, _)
LcgIterate(seed, n) == IF n = 0 THEN seed ELSE LcgReference(LcgIterate(seed, n - 1))

\* C5: for a non-negative seed every call of the generator sets
\* state' = (state * 9301 + 49297) mod 233280, keeps it in 0..233279 and
\* returns state' / 233280 in [0,1); the state after n calls is a function
\* of the seed and n.
GeneratorIsLcg ==
  [][gen' # gen =>
       /\ gen'.value = LcgReference(gen.value)
       /\ gen'.value \in 0..(LcgModulus - 1)
       /\ 2 * (gen'.out * 729 - gen'.value * 3125) <= 729
       /\ 2 * (gen'.value * 3125 - gen'.out * 729) <= 729
       /\ gen'.out \in 0..(FxOne - 1)
       /\ gen'.seed = gen.seed
       /\ gen'.value = LcgIterate(gen'.seed, gen'.draws)]_vars

\* C5, its case: the generator of seed 12345 (the shuffle's) was called
\* three times.
GeneratorCalledThrice ==
  gen.seed = 12345 /\ gen.draws = 3 /\ gen.value = LcgIterate(12345, 3) /\ gen.out > 0

SellingPriceRespectsFloor ==
  (selling.called /\ selling.basePrice > 0 /\ selling.floorPricePercentage # NoFloor) =>
    /\ 2 * selling.result * 100 * PriceUnit + 100 * PriceUnit
         > 2 * selling.basePrice * selling.floorPricePercentage
    /\ (selling.basePrice = 100 * PriceUnit /\ selling.risk = 80
          /\ selling.floorPricePercentage = 10) => selling.result >= 10

\* C7, its case: a discounted sale (100, risk 100: 70) below the floor
\* (90%) is raised to the floor.
SellingPriceRaisedToFloor ==
  /\ selling.called
  /\ selling.basePrice = 100 * PriceUnit
  /\ selling.risk = 100
  /\ selling.floorPricePercentage = 90
  /\ selling.result = 90

SuccessRateIsClamped ==
  craft.called => (5 * RateUnit <= craft.result /\ craft.result <= 95 * RateUnit)

\* C10, its case: baseSuccessRate 0 and a negative bonus of a Legendary
\* material, held at 5.
SuccessRateHeldAtFive ==
  /\ craft.called
  /\ craft.recipe.baseSuccessRate = 0
  /\ craft.recipe.qualityBonus < 0
  /\ craft.materials # <<>>
  /\ Head(craft.materials) = "Legendary"
  /\ craft.result = 5 * RateUnit

\* The item of the inventory with the given id.
itemOf(itemId) ==
  CHOOSE it \in {inventoryItems[k] : k \in 1..Len(inventoryItems)} : it.id = itemId

tierBonus(status, qualityBonus) ==
  IF status = "Legendary" THEN qualityBonus * RateUnit
  ELSE IF status = "Rare" THEN (qualityBonus * RateUnit) \div 2
  ELSE IF status = "Uncommon" THEN (qualityBonus * RateUnit) \div 4
  ELSE 0

RECURSIVE sumTierBonus(_, _)
sumTierBonus(materials, qualityBonus) ==
  IF materials = <<>> THEN 0
  ELSE tierBonus(Head(materials), qualityBonus) + sumTierBonus(Tail(materials), qualityBonus)

\* The five quality tiers of an item.
QualityTiers == {"Damaged", "Common", "Uncommon", "Rare", "Legendary"}

\* C11: for materials of the five quality tiers, the rate before the clamp is
\* baseSuccessRate plus, per material, qualityBonus times 1.0 (Legendary),
\* 0.5 (Rare), 0.25 (Uncommon) or 0 (Common, Damaged).
SuccessRateAddsTierBonus ==
  (craft.called /\ \A k \in 1..Len(craft.materials) : craft.materials[k] \in QualityTiers) =>
    craft.result = clampRate(craft.recipe.baseSuccessRate * RateUnit
                             + sumTierBonus(craft.materials, craft.recipe.qualityBonus))

\* C12: a crafting attempt that passes the readiness check removes every
\* selected material from the inventory whatever the outcome; a success adds
\* exactly one new item built from the recipe result, a failure adds nothing,
\* and no item that is not selected is removed.
MaterialsAlwaysConsumed ==
  [][(selectedRecipe # "null" /\ selectedRecipe' = "null") =>
       LET ids == UNION {{selectedMaterials[name][k] :
                            k \in 1..Len(selectedMaterials[name])} : name \in MaterialNames}
           kept == SelectSeq(inventoryItems, LAMBDA item : item.id \notin ids)
           result == recipeOf(selectedRecipe).result
       IN  /\ toast' \in {"success", "error"}
           /\ toast' = "error" => inventoryItems' = kept
           /\ toast' = "success" =>
                /\ Len(inventoryItems') = Len(kept) + 1
                /\ SubSeq(inventoryItems', 1, Len(kept)) = kept
                /\ LET newItem == inventoryItems'[Len(inventoryItems')]
                   IN  /\ newItem.name = result.name
                       /\ newItem.basePrice = result.basePrice
                       /\ newItem.status = result.status
                       /\ newItem.risk = result.risk
                       /\ \A k \in 1..Len(kept) : kept[k].id # newItem.id]_vars

\* C12, its case: a failed attempt at the Mystic Staff has taken both
\* materials and left the Dragon Scale that was not selected.
CraftFailedMaterialsGone ==
  /\ toast = "error"
  /\ experience = CRAFT_FAILURE
  /\ Len(inventoryItems) = 1
  /\ inventoryItems[1].name = "Dragon Scale"
  /\ inventoryItems[1].id = 2

\* The rank of a quality tier.
tierRank(status) ==
  CASE status = "Damaged" -> 1
    [] status = "Common" -> 2
    [] status = "Uncommon" -> 3
    [] status = "Rare" -> 4
    [] status = "Legendary" -> 5

\* C13: an item of the inventory changes only by a successful repair, which
\* advances its status by exactly one tier and makes its base price
\* round(oldBasePrice * 1.25), leaving its other fields and every other item
\* as they were; and the step that marks an item as repaired makes this change.
RepairUpgradesOneTier ==
  [][/\ \A i \in 1..Len(inventoryItems), j \in 1..Len(inventoryItems') :
          (inventoryItems[i].id = inventoryItems'[j].id
           /\ inventoryItems[i] # inventoryItems'[j]) =>
            LET old == inventoryItems[i]
                new == inventoryItems'[j]
            IN  /\ tierRank(new.status) = tierRank(old.status) + 1
                /\ (2 * new.basePrice - 1) * 4 <= 10 * old.basePrice
                /\ 10 * old.basePrice < (2 * new.basePrice + 1) * 4
                /\ new.name = old.name /\ new.risk = old.risk
                /\ Len(inventoryItems') = Len(inventoryItems)
                /\ \A k \in 1..Len(inventoryItems) :
                     k # i => inventoryItems'[k] = inventoryItems[k]
     /\ \A id \in repairedItemIds' \ repairedItemIds :
          \E i \in 1..Len(inventoryItems) :
            /\ inventoryItems[i].id = id
            /\ inventoryItems'[i].id = id
            /\ inventoryItems'[i] # inventoryItems[i]]_vars

\* C13, its case: the Damaged item of base price 202 has been repaired into a
\* Common one of base price 253, next to an untouched Legendary item.
DamagedRepairedToCommon ==
  /\ Len(inventoryItems) = 2
  /\ inventoryItems[1] =
       [id |-> 1, name |-> "X", basePrice |-> 253, status |-> "Common", risk |-> 15]
  /\ inventoryItems[2] =
       [id |-> 2, name |-> "X", basePrice |-> 200, status |-> "Legendary", risk |-> 100]
  /\ 1 \in repairedItemIds

\* The sum of f[x] over the set S.
RECURSIVE sumOver(_, _)
sumOver(S, f) ==
  IF S = {} THEN 0
  ELSE LET x == CHOOSE y \in S : TRUE IN f[x] + sumOver(S \ {x}, f)

\* C14: a repair that fails removes the item from the inventory, and the
\* balance grows by exactly the base price of each failed item that was
\* insured and by nothing for one that was not.
FailedRepairRefundsInsured ==
  [][(Len(inventoryItems') < Len(inventoryItems) /\ salesHistory' = salesHistory) =>
       LET failed == {i \in 1..Len(inventoryItems) :
                        inventoryItems[i].id \notin itemIds(inventoryItems')}
           refund == [i \in failed |->
                        IF inventoryItems[i].id \in insuredItemIds
                          THEN inventoryItems[i].basePrice ELSE 0]
       IN  /\ failed # {}
           /\ \A i \in failed : inventoryItems[i].id \in selectedItemIds
           /\ balance' = balance + sumOver(failed, refund)
           /\ Len(inventoryItems') = Len(inventoryItems) - Cardinality(failed)]_vars

\* C14, its case: the Damaged item was insured, its repair failed, and its
\* base price 202 came back on top of what was left after the premium.
InsuredRepairFailed ==
  /\ Len(inventoryItems) = 1
  /\ inventoryItems[1].id = 2
  /\ inventoryItems[1].status = "Legendary"
  /\ salesHistory = <<>>
  /\ insuredItemIds = {}
  /\ balance = InitialBalance + 202
                - insuranceCost(calculateDailyPrice(202 * PriceUnit, 2, NumId(1), <<88>>, 150)
                                  \div PriceUnit, 15)

\* The timers running for the item.
timersFor(timers, itemId) ==
  Cardinality({k \in 1..Len(timers) : timers[k].itemId = itemId})

\* C15: no step tests a Legendary item or an item in repairedItemIds: unless
\* it is sold, such an item stays in the inventory with its status and base
\* price, and no repair animation is started for it.
TerminalItemsAreNotTested ==
  [][\A i \in 1..Len(inventoryItems) :
       (inventoryItems[i].status = "Legendary"
        \/ inventoryItems[i].id \in repairedItemIds) =>
         /\ timersFor(repairTimers', inventoryItems[i].id)
              <= timersFor(repairTimers, inventoryItems[i].id)
         /\ salesHistory' = salesHistory =>
              \E j \in 1..Len(inventoryItems') : inventoryItems'[j] = inventoryItems[i]]_vars

\* C15, its case: the Rare item has been repaired into a Legendary one of
\* base price 1196 and is still there after the repair of the other item,
\* made later or in the same check, has failed.
RepairedItemOutlivesFailedRepair ==
  /\ Len(inventoryItems) = 1
  /\ inventoryItems[1] =
       [id |-> 1, name |-> "X", basePrice |-> 1196, status |-> "Legendary", risk |-> 15]
  /\ repairedItemIds = {1}
  /\ repairTimers = <<>>
  /\ salesHistory = <<>>
  /\ balance = InitialBalance

\* The lowest and the highest value of Math.random() * 100.
ResolverDraws == {0, 100 * DrawUnit - 1}

\* C16: a quick sale applies the outcome resolver to each sold item with its
\* risk; an item for which the event occurs is lost, removed without its
\* price reaching the balance, and only the other items are paid.
QuickSaleLosesItemsAtRisk ==
  [][salesHistory' # salesHistory =>
       LET sold == {i \in 1..Len(inventoryItems) :
                      inventoryItems[i].id \notin itemIds(inventoryItems')}
       IN  \E draws \in [sold -> ResolverDraws] :
             LET paid == [i \in sold |->
                            IF draws[i] < inventoryItems[i].risk * DrawUnit
                              THEN 0
                              ELSE dailyPriceOf(inventoryItems[i], currentDay)]
             IN  balance' = balance + sumOver(sold, paid)]_vars

\* The history stored for the item: its list, none when the stored value
\* holds no array for it.
historyOf(stored, itemId) ==
  IF stored.kind = "object" /\ itemId \in DOMAIN stored.entries
       /\ stored.entries[itemId].kind = "array"
    THEN stored.entries[itemId].list
    ELSE <<>>

daysOf(list) == {list[k].day : k \in 1..Len(list)}

\* The item ids a history may be stored for.
HistoryKeys == HistoryItemIds \cup itemIds(HistoryInventory)

\* C17: the stored history of an item never holds more than 10 entries, in
\* ascending order of day; a call that records a day keeps the most recent 10
\* of the days it had and the day recorded, evicting the oldest ones, and
\* leaves the price of every other day it keeps as it was.
HistoryKeepsLastTenDays ==
  [][\A itemId \in HistoryKeys :
       LET old == historyOf(storedPriceHistory, itemId)
           new == historyOf(storedPriceHistory', itemId)
           all == daysOf(old) \cup {historyCall'.day}
       IN  /\ Len(new) <= 10
           /\ \A k \in 1..(Len(new) - 1) : new[k].day < new[k + 1].day
           /\ (new # old /\ historyCall'.fn \in {"updatePriceHistory",
                                                 "updateAllItemsPriceHistory"}) =>
                /\ daysOf(new) \subseteq all
                /\ Cardinality(daysOf(new)) = Min(10, Cardinality(all))
                /\ \A gone \in all \ daysOf(new), kept \in daysOf(new) : gone < kept
                /\ \A k \in 1..Len(new), j \in 1..Len(old) :
                     (new[k].day = old[j].day /\ new[k].day # historyCall'.day) =>
                       new[k].price = old[j].price]_vars

\* C17, its case: after the prices of days 1 to 11 have been recorded one
\* day after the other, the history of item 1 holds the 10 pairs of days 2
\* to 11, each with the price of its day.
ElevenDaysRecorded ==
  /\ historyCall.fn = "updateAllItemsPriceHistory"
  /\ historyCall.day = 11
  /\ directCalls = 0
  /\ LET list == historyOf(storedPriceHistory, 1)
     IN  /\ Len(list) = 10
         /\ \A k \in 1..10 :
              list[k] = [day |-> k + 1, price |-> dailyPriceOf(HistoryInventory[1], k + 1)]

\* The entries of the list for the day.
entriesOn(list, day) == {k \in 1..Len(list) : list[k].day = day}

\* The history holds the day with the daily price of the item.
recordedOn(stored, item, day) ==
  LET list == historyOf(stored, item.id)
      found == entriesOn(list, day)
  IN  found # {} /\ LET dailyPrice == dailyPriceOf(item, day)
                    IN  \E k \in found : list[k].price = dailyPrice

\* C18: updateAllItemsPriceHistory run for a day that the history of every
\* item already holds with the daily price of the item leaves the stored
\* history as it was, with one entry for that day holding the same price.
RecordingAgainIsIdempotent ==
  (/\ historyCall.fn = "updateAllItemsPriceHistory"
   /\ \A i \in 1..Len(inventoryItems) :
        recordedOn(historyCall.before, inventoryItems[i], historyCall.day))
    => /\ ~historyCall.threw
       /\ storedPriceHistory = historyCall.before
       /\ \A i \in 1..Len(inventoryItems) :
            /\ Cardinality(entriesOn(historyOf(storedPriceHistory, inventoryItems[i].id),
                                     historyCall.day)) = 1
            /\ recordedOn(storedPriceHistory, inventoryItems[i], historyCall.day)

\* C18, its case: the prices of day 2 have been recorded a second time, after
\* those of day 1 and of day 2, and the history of item 1 is the one the
\* first run left.
DayTwoRecordedTwice ==
  /\ historyCall.fn = "updateAllItemsPriceHistory"
  /\ historyCall.day = 2
  /\ historyCall.before = storedPriceHistory
  /\ directCalls = 0
  /\ historyOf(storedPriceHistory, 1) =
       <<[day |-> 1, price |-> dailyPriceOf(HistoryInventory[1], 1)],
         [day |-> 2, price |-> dailyPriceOf(HistoryInventory[1], 2)]>>
  /\ Len(historyOf(storedPriceHistory, 2)) = 2

\* C19: whatever is stored under the key, loadPriceHistory, getPriceHistory
\* and updatePriceHistory complete without throwing and treat a value that
\* is not an object of arrays as no data: loadPriceHistory returns an object,
\* getPriceHistory returns no entry for the item.
MalformedHistoryIsNoData ==
  historyCall.fn \in {"loadPriceHistory", "getPriceHistory", "updatePriceHistory"} =>
    /\ ~historyCall.threw
    /\ historyCall.fn = "loadPriceHistory" => historyCall.result = "object"
    /\ (historyCall.fn = "getPriceHistory"
        /\ historyOf(historyCall.before, historyCall.itemId) = <<>>) =>
         historyCall.result = <<>>

\* The entries the call found: none when nothing usable was stored.
entriesBefore(call) ==
  IF call.before.kind = "object" THEN call.before.entries ELSE <<>>

\* C20: a call of updatePriceHistory that completes leaves the entry of
\* every other item as it found it, and the price stored for the item and
\* the day is the one of this call, the last write, unless the day is older
\* than the 10 days kept.
UpdateTouchesOneItem ==
  (historyCall.fn = "updatePriceHistory" /\ ~historyCall.threw) =>
    LET found == entriesBefore(historyCall)
        left == storedPriceHistory.entries
        list == historyOf(storedPriceHistory, historyCall.itemId)
        onDay == entriesOn(list, historyCall.day)
    IN  /\ storedPriceHistory.kind = "object"
        /\ DOMAIN left \ {historyCall.itemId} = DOMAIN found \ {historyCall.itemId}
        /\ \A k \in DOMAIN found \ {historyCall.itemId} : left[k] = found[k]
        /\ \A k \in onDay : list[k].price = historyCall.price
        /\ Cardinality(onDay) = 1
           \/ (Len(list) = MAX_HISTORY_DAYS /\ historyCall.day < list[1].day)

\* C20, its case: the price of item 1 on day 1, recorded with the prices of
\* the day, has been overwritten with 7 by a call of updatePriceHistory,
\* and the history of item 2 is the one recorded.
PriceOverwrittenForOneItem ==
  /\ historyCall = [fn |-> "updatePriceHistory", itemId |-> 1, day |-> 1, price |-> 7,
                    before |-> historyCall.before, threw |-> FALSE, result |-> <<>>]
  /\ historyOf(historyCall.before, 1)
       = <<[day |-> 1, price |-> dailyPriceOf(HistoryInventory[1], 1)]>>
  /\ historyOf(storedPriceHistory, 1) = <<[day |-> 1, price |-> 7]>>
  /\ historyOf(storedPriceHistory, 2)
       = <<[day |-> 1, price |-> dailyPriceOf(HistoryInventory[2], 1)]>>

\* C21: an item that has passed the repair test and whose animation is
\* running is not tested again: no step starts another animation for it, and
\* it leaves the inventory by a sale only.
RepairTestedOnce ==
  [][\A i \in 1..Len(inventoryItems) :
       timersFor(repairTimers, inventoryItems[i].id) >= 1 =>
         /\ timersFor(repairTimers', inventoryItems[i].id)
              <= timersFor(repairTimers, inventoryItems[i].id)
         /\ salesHistory' = salesHistory =>
              inventoryItems[i].id \in itemIds(inventoryItems')]_vars

\* C22: under fair timers, an item that has passed the repair test
\* eventually has its upgrade applied: it is in the inventory as a repaired
\* item and its animation is over.
PassedRepairIsApplied ==
  \A itemId \in 1..MaxItems :
    (timersFor(repairTimers, itemId) >= 1)
      ~> (/\ itemId \in itemIds(inventoryItems)
          /\ itemId \in repairedItemIds
          /\ itemId \notin DOMAIN checkingItems)

InsureIsAllOrNothing ==
  [][LET due == {i \in 1..Len(inventoryItems) :
                   /\ inventoryItems[i].id \in selectedItemIds \ insuredItemIds
                   /\ inventoryItems[i].status # "Legendary"}
         premium == [i \in due |->
                       insuranceCost(dailyPriceOf(inventoryItems[i], currentDay),
                                     inventoryItems[i].risk)]
         total == sumOver(due, premium)
     IN  \/ balance' = balance /\ insuredItemIds' = insuredItemIds
         \/ /\ due # {}
            /\ balance >= total
            /\ balance' = balance - total
            /\ insuredItemIds' = insuredItemIds \cup {inventoryItems[i].id : i \in due}]_vars

\* C25, its case: of a balance of 50 the premium of item 1 has been taken
\* and item 1 is insured; both items are selected again, and what is left
\* does not cover the premium of item 2, the only one due, so that
\* handleInsure leaves this state as it is.
InsuredOnceThenRefused ==
  /\ currentDay = 1
  /\ inventoryItems =
       <<[id |-> 1, name |-> "X", basePrice |-> 200, status |-> "Common", risk |-> 0],
         [id |-> 2, name |-> "X", basePrice |-> 957, status |-> "Common", risk |-> 15]>>
  /\ insuredItemIds = {1}
  /\ selectedItemIds = {1, 2}
  /\ balance = 50 - insuranceCost(dailyPriceOf(inventoryItems[1], 1), 0)
  /\ balance < insuranceCost(dailyPriceOf(inventoryItems[2], 1), 15)

\* C26: every insured id is the id of an item of the inventory.
InsuredItemsAreInInventory == insuredItemIds \subseteq itemIds(inventoryItems)

\* C23: once the stored day is 1, the next day stored is 2: after a reset
\* the day counter goes on from 1.
ResetRestartsDayCounter ==
  [][(storedDay = 1 /\ storedDay' # storedDay) => storedDay' = 2]_vars

InventoryIdsAreDistinct ==
  Cardinality(itemIds(inventoryItems)) = Len(inventoryItems)

\* The two listings bought have been moved to the empty inventory under the
\* ids 1 and 2, and the staff crafted of them has the id 3.
CraftedItemGetsNextId ==
  /\ Len(inventoryItems) = 1
  /\ inventoryItems[1].id = 3
  /\ inventoryItems[1].name = "Mystic Staff"
  /\ experience = 2 * PURCHASE_ITEM + 2 * MOVE_TO_INVENTORY + CRAFT_FAILURE + CRAFT_SUCCESS

====
